---- MODULE Spec2Model ----
(***************************************************************************)
(* IndexGPU (cudamapper): asynchronous construction of an index of sketch  *)
(* elements, grouping by representation, filtering of the most common      *)
(* representations, and the readiness gate in front of the accessors.      *)
(*                                                                         *)
(* Arrays of the program are 0-based; the sequences below are 1-based, so  *)
(* array element a[i] is sequence element a[i + 1].                        *)
(***************************************************************************)
EXTENDS Integers, Sequences, FiniteSets, TLC

(***************************************************************************)
(* Bounds of the model.                                                    *)
(***************************************************************************)
\* largest number of basepairs in the reads of the descriptor's range, all together
MaxBasepairs == 5

\* numbers of reads the descriptor's range may hold
ReadCounts == {0, 1, 2}

\* the basepair alphabet (two letters, each the complement of the other)
Bases == {0, 1}
\* values the caller may pass as kmer_size and window_size
KmerSizes == {2}
WindowSizes == {1}
\* values the caller may pass as descriptor.first_read()
FirstReadIds == {1}
\* values the caller may pass as filtering_parameter, in thousandths
\* (0.0, 0.75 and 1.0: all three are exact as doubles)
FilteringParameters == {0, 750, 1000}

\* content of a device cell that has been allocated and not written yet
UNINIT == 0 - 1

FORWARD == "FORWARD"
REVERSE == "REVERSE"
\* the same for a cell that holds a direction
UNINIT_DIRECTION == "UNINIT"

(***************************************************************************)
(* Small helpers on sequences.                                             *)
(***************************************************************************)
Max(a, b) == IF a >= b THEN a ELSE b

RECURSIVE SeqsUpTo(_, _)
\* every sequence over S of length 0..n
SeqsUpTo(S, n) ==
    IF n = 0 THEN {<<>>}
    ELSE LET shorter == SeqsUpTo(S, n - 1)
         IN  shorter \cup {Append(s, x) : s \in {t \in shorter : Len(t) = n - 1}, x \in S}

\* a freshly allocated device buffer of n cells
Alloc(n) == [i \in 1..n |-> UNINIT]

\* a freshly allocated device buffer of n directions
AllocDirections(n) == [i \in 1..n |-> UNINIT_DIRECTION]

\* a freshly allocated device buffer of n sections of the merged basepairs
AllocSections(n) == [i \in 1..n |-> [first_element_ |-> UNINIT, number_of_elements_ |-> UNINIT]]

(***************************************************************************)
(* The sketch-generation strategy (external to the index).  One element    *)
(* per (read, window): the k-mer of the window with the smallest           *)
(* representation, the representation of a k-mer being the smaller of its  *)
(* forward and its reverse-complement encoding.                            *)
(***************************************************************************)
RECURSIVE KmerValue(_, _, _)
\* encoding of the k basepairs read[p + 1 .. p + k], most significant first
KmerValue(read, p, k) ==
    IF k = 0 THEN 0
    ELSE KmerValue(read, p, k - 1) * Cardinality(Bases) + read[p + k]

RECURSIVE RevCompValue(_, _, _)
\* encoding of the reverse complement of the same k basepairs
RevCompValue(read, p, k) ==
    IF k = 0 THEN 0
    ELSE RevCompValue(read, p + 1, k - 1) * Cardinality(Bases) + (1 - read[p + 1])

KmerElement(read, p, k, read_id) ==
    LET fwd == KmerValue(read, p, k)
        rev == RevCompValue(read, p, k)
    IN  [representation_ |-> IF fwd <= rev THEN fwd ELSE rev,
         read_id_ |-> read_id,
         position_in_read_ |-> p,
         direction_ |-> IF fwd <= rev THEN FORWARD ELSE REVERSE]

RECURSIVE WindowElement(_, _, _, _, _)
\* the element of the window of w adjacent k-mers that starts at p:
\* the leftmost k-mer with the smallest representation
WindowElement(read, p, k, w, read_id) ==
    IF w = 1 THEN KmerElement(read, p, k, read_id)
    ELSE LET best == WindowElement(read, p, k, w - 1, read_id)
             last == KmerElement(read, p + w - 1, k, read_id)
         IN  IF last.representation_ < best.representation_ THEN last ELSE best

\* the elements of one read, by window position
ReadElements(read, k, w, read_id) ==
    [p \in 1..(Len(read) - (w + k - 1) + 1) |-> WindowElement(read, p - 1, k, w, read_id)]

RECURSIVE generate_sketch_elements(_, _, _, _, _, _)
\* merged_basepairs: the merged buffer; sections: the {first_element_, number_of_elements_}
\* table.  Section i (0-based) is labelled read first_read_id + i.
generate_sketch_elements(number_of_reads, k, w, first_read_id, merged_basepairs, sections) ==
    IF number_of_reads = 0 THEN <<>>
    ELSE LET sec  == sections[number_of_reads]
             read == SubSeq(merged_basepairs, sec.first_element_ + 1,
                            sec.first_element_ + sec.number_of_elements_)
         IN  generate_sketch_elements(number_of_reads - 1, k, w, first_read_id,
                                      merged_basepairs, sections)
             \o ReadElements(read, k, w, first_read_id + number_of_reads - 1)

(***************************************************************************)
(* Device algorithms used by generate_index.                               *)
(***************************************************************************)
RECURSIVE InsertAfterEqual(_, _, _)
\* position (0-based count of elements to skip) at which a new key is inserted
\* so that it lands behind every element with a key <= its own
InsertAfterEqual(keys, key, n) ==
    IF n = 0 THEN 0
    ELSE IF keys[n] <= key THEN n
    ELSE InsertAfterEqual(keys, key, n - 1)

RECURSIVE InsertBeforeEqual(_, _, _)
\* as InsertAfterEqual, but in front of the elements with an equal key
InsertBeforeEqual(keys, key, n) ==
    IF n = 0 THEN 0
    ELSE IF keys[n] < key THEN n
    ELSE InsertBeforeEqual(keys, key, n - 1)

InsertAt(s, at, x) == SubSeq(s, 1, at) \o <<x>> \o SubSeq(s, at + 1, Len(s))

RECURSIVE UnstableSortByKey(_, _)
\* a sort by key that reverses the elements with equal keys
UnstableSortByKey(keys, values) ==
    IF Len(keys) = 0 THEN [keys |-> <<>>, values |-> <<>>]
    ELSE LET n      == Len(keys)
             sorted == UnstableSortByKey(SubSeq(keys, 1, n - 1), SubSeq(values, 1, n - 1))
             at     == InsertBeforeEqual(sorted.keys, keys[n], n - 1)
         IN  [keys   |-> InsertAt(sorted.keys, at, keys[n]),
              values |-> InsertAt(sorted.values, at, values[n])]

RECURSIVE stable_sort_by_key(_, _)
\* thrust::stable_sort_by_key: keys ascending, values moved with their keys,
\* elements with equal keys keep their order
stable_sort_by_key(keys, values) ==
    IF Len(keys) = 0 THEN [keys |-> <<>>, values |-> <<>>]
    ELSE LET n      == Len(keys)
             sorted == stable_sort_by_key(SubSeq(keys, 1, n - 1), SubSeq(values, 1, n - 1))
             at     == InsertAfterEqual(sorted.keys, keys[n], n - 1)
         IN  [keys   |-> InsertAt(sorted.keys, at, keys[n]),
              values |-> InsertAt(sorted.values, at, values[n])]

\* copy_rest_to_separate_arrays: thread i copies element i of rest_d
copy_rest_to_separate_arrays(rest_d, total_elements) ==
    [read_ids   |-> [i \in 1..total_elements |-> rest_d[i].read_id_],
     positions  |-> [i \in 1..total_elements |-> rest_d[i].position_in_read_],
     directions |-> [i \in 1..total_elements |-> rest_d[i].direction_]]

(***************************************************************************)
(* GroupingCompactor: find_first_occurrences_of_representations.           *)
(***************************************************************************)
\* a mask in which every element starts a group of its own
every_element_is_new(input_representations) ==
    [i \in 1..Len(input_representations) |-> 1]

\* 1 where a representation differs from its left neighbour (and at index 0)
new_value_mask(input_representations) ==
    [i \in 1..Len(input_representations) |->
        IF i = 1 \/ input_representations[i] # input_representations[i - 1] THEN 1 ELSE 0]

RECURSIVE inclusive_scan(_)
inclusive_scan(s) ==
    IF Len(s) = 0 THEN <<>>
    ELSE LET n    == Len(s)
             head == inclusive_scan(SubSeq(s, 1, n - 1))
         IN  Append(head, (IF n = 1 THEN 0 ELSE head[n - 1]) + s[n])

\* ordinal number (1-based) of the representation of every element
representation_index_mask(input_representations) ==
    inclusive_scan(new_value_mask(input_representations))

\* find_first_occurrences_of_representations_kernel: the element that starts
\* group number g writes its index and its representation to slot g - 1
find_first_occurrences_of_representations_kernel(mask, input_representations, starting_index_d, unique_d) ==
    LET n        == Len(input_representations)
        starts   == {i \in 1..n : i = 1 \/ mask[i] # mask[i - 1]}
        start(g) == CHOOSE i \in starts : mask[i] = g
    IN  [starting_index |-> [g \in 1..Len(starting_index_d) |->
                                IF \E i \in starts : mask[i] = g
                                THEN start(g) - 1 ELSE starting_index_d[g]],
         unique         |-> [g \in 1..Len(unique_d) |->
                                IF \E i \in starts : mask[i] = g
                                THEN input_representations[start(g)] ELSE unique_d[g]]]

\* writes one value into the last cell of a device buffer
set_last(buffer, value) ==
    [i \in 1..Len(buffer) |-> IF i = Len(buffer) THEN value ELSE buffer[i]]

(***************************************************************************)
(* FrequencyFilter: the steps of filter_out_most_common_representations.   *)
(***************************************************************************)
\* thrust::adjacent_difference over first_occurrence[1 .. end), written to the
\* front of counts_d: out[0] = in[0], out[i] = in[i] - in[i - 1]
adjacent_difference(first_occurrence, counts_d) ==
    [i \in 1..Len(counts_d) |->
        IF i > Len(first_occurrence) - 1 THEN counts_d[i]
        ELSE IF i = 1 THEN first_occurrence[2]
        ELSE first_occurrence[i + 1] - first_occurrence[i]]

\* static_cast<uint64_t>(total_sketch_elements * filtering_parameter + 0.001),
\* the parameter being given in thousandths
filtering_threshold(total_sketch_elements, filtering_parameter) ==
    (total_sketch_elements * filtering_parameter + 1) \div 1000

\* a predicate that keeps a representation whose count equals the threshold
remove_above_threshold(val, threshold) == val > threshold

\* the predicate of thrust::replace_if
remove_representation(val, threshold) == val >= threshold

\* thrust::replace_if over every element but the last
replace_if(counts_d, threshold) ==
    [i \in 1..Len(counts_d) |->
        IF i < Len(counts_d) /\ remove_representation(counts_d[i], threshold)
        THEN 0 ELSE counts_d[i]]

\* a scan in which every element counts itself too
scan_including_itself(s) == inclusive_scan(s)

\* thrust::exclusive_scan with initial value 0
RECURSIVE exclusive_scan(_)
exclusive_scan(s) ==
    IF Len(s) = 0 THEN <<>>
    ELSE LET n    == Len(s)
             head == exclusive_scan(SubSeq(s, 1, n - 1))
         IN  Append(head, IF n = 1 THEN 0 ELSE head[n - 1] + s[n - 1])

\* a flag that counts every representation but the additional element as kept
keep_every_representation(counts_d, unique_representation_index, number_of_unique_representations) ==
    IF unique_representation_index < number_of_unique_representations THEN 1 ELSE 0

\* the lambda of thrust::transform_exclusive_scan (index is 0-based)
keep_representation_flag(counts_d, unique_representation_index, number_of_unique_representations) ==
    IF unique_representation_index < number_of_unique_representations
    THEN (IF 0 = counts_d[unique_representation_index + 1] THEN 0 ELSE 1)
    ELSE 0

\* thrust::transform_exclusive_scan over 0 .. number_of_unique_representations
transform_exclusive_scan(counts_d, number_of_unique_representations) ==
    exclusive_scan([i \in 1..(number_of_unique_representations + 1) |->
        keep_representation_flag(counts_d, i - 1, number_of_unique_representations)])

\* compress_unique_representations_after_filtering_kernel: thread i < m moves a
\* kept representation (its new index differs from its right neighbour's) to
\* its new slot; thread m writes the new last element of first_occurrence
compress_unique_representations_after_filtering_kernel(m, unique_before, first_before, new_index, unique_after_d, first_after_d) ==
    LET kept        == {i \in 1..m : new_index[i] # new_index[i + 1]}
        writer(j)   == CHOOSE i \in kept : new_index[i] + 1 = j
    IN  [unique |-> [j \in 1..Len(unique_after_d) |->
                        IF \E i \in kept : new_index[i] + 1 = j
                        THEN unique_before[writer(j)] ELSE unique_after_d[j]],
         first  |-> [j \in 1..Len(first_after_d) |->
                        IF \E i \in kept : new_index[i] + 1 = j
                        THEN first_before[writer(j)]
                        ELSE IF new_index[m + 1] + 1 = j THEN first_before[m + 1]
                        ELSE first_after_d[j]]]

\* a block that writes the elements of its representation back to front
RECURSIVE compress_block_reversed(_, _, _, _, _, _)
compress_block_reversed(count, from, to, before, after, i) ==
    IF i >= count THEN after
    ELSE compress_block_reversed(count, from, to, before,
                                 [after EXCEPT ![to + i + 1] = before[from + count - i]], i + 1)

RECURSIVE compress_block(_, _, _, _, _, _)
\* one thread block of compress_data_arrays_after_filtering_kernel, for the
\* representation with 0-based index b: copies count elements of one array
\* from first_before_filtering[b] to first_after_compression[new_index[b]]
compress_block(count, from, to, before, after, i) ==
    IF i >= count THEN after
    ELSE compress_block(count, from, to, before,
                        [after EXCEPT ![to + i + 1] = before[from + i + 1]], i + 1)

RECURSIVE compress_data_array(_, _, _, _, _, _, _)
\* compress_data_arrays_after_filtering_kernel on one of the four data
\* arrays, blocks 0 .. number_of_unique_representations - 1
compress_data_array(number_of_unique_representations, counts_d, first_before_filtering, first_after_compression, new_index, before, after) ==
    IF number_of_unique_representations = 0 THEN after
    ELSE LET b     == number_of_unique_representations - 1
             done  == compress_data_array(b, counts_d, first_before_filtering,
                                          first_after_compression, new_index, before, after)
             count == counts_d[b + 1]
         IN  IF 0 = count THEN done
             ELSE compress_block(count, first_before_filtering[b + 1],
                                 first_after_compression[new_index[b + 1] + 1],
                                 before, done, 0)

(***************************************************************************)
(* Host side of generate_index: selection of the reads and the merged      *)
(* basepair buffer.                                                        *)
(***************************************************************************)
\* the reads a caller may put in the descriptor's range
ReadSet == {r \in SeqsUpTo(Bases, MaxBasepairs) : Len(r) >= 1}

RECURSIVE TotalLength(_)
TotalLength(rds) == IF Len(rds) = 0 THEN 0 ELSE Len(Head(rds)) + TotalLength(Tail(rds))

\* the ranges of reads a caller may construct an index from
ReadRanges ==
    UNION {{rds \in [1..n -> ReadSet] : TotalLength(rds) <= MaxBasepairs} : n \in ReadCounts}

\* a selection that also skips a read of exactly one window
read_longer_than_window(read, k, w) == Len(read) > w + k - 1

\* a selection that passes every read on, however short
read_always_qualifies(read, k, w) == TRUE

\* does a read cover at least one window
read_qualifies(read, k, w) == Len(read) >= w + k - 1

\* parser.get_sequence_by_id(read_id).seq, rds holding the reads of the range
get_sequence_by_id(rds, first_read_id, read_id) == rds[read_id - first_read_id + 1]

RECURSIVE count_basepairs(_, _, _, _, _)
\* the count_basepairs loop over the first n reads of the range: the ids of
\* the qualifying reads, their sections, the total and the longest read
count_basepairs(rds, first_read_id, n, k, w) ==
    IF n = 0
    THEN [local_to_global_read_id |-> <<>>, sections |-> <<>>,
          total_basepairs |-> 0, longest |-> 0]
    ELSE LET before  == count_basepairs(rds, first_read_id, n - 1, k, w)
             read_id == first_read_id + n - 1
             read    == get_sequence_by_id(rds, first_read_id, read_id)
         IN  IF read_qualifies(read, k, w)
             THEN [local_to_global_read_id |-> Append(before.local_to_global_read_id, read_id),
                   sections |-> Append(before.sections,
                                       [first_element_ |-> before.total_basepairs,
                                        number_of_elements_ |-> Len(read)]),
                   total_basepairs |-> before.total_basepairs + Len(read),
                   longest |-> Max(before.longest, Len(read))]
             ELSE before

RECURSIVE merge_basepairs(_, _, _, _, _, _)
\* the merge_basepairs loop over the first n qualifying reads: each is copied
\* into the merged buffer at the first element of its section
merge_basepairs(rds, first_read_id, local_to_global, sections, merged, n) ==
    IF n = 0 THEN merged
    ELSE LET before == merge_basepairs(rds, first_read_id, local_to_global, sections, merged, n - 1)
             read   == get_sequence_by_id(rds, first_read_id, local_to_global[n])
             start  == sections[n].first_element_
         IN  [i \in 1..Len(before) |->
                 IF i > start /\ i <= start + Len(read) THEN read[i - start] ELSE before[i]]

(***************************************************************************)
(* State.                                                                  *)
(***************************************************************************)
VARIABLES
    \* arguments of the constructor
    reads,                  \* the reads of the descriptor's range, as the parser returns them
    filtering_parameter,    \* in thousandths
    \* members of IndexGPU
    first_read_id_,
    kmer_size_,
    window_size_,
    number_of_reads_,
    number_of_basepairs_in_longest_read_,
    way_of_construciton_,
    is_ready_,
    index_host_copy_source_,    \* the host snapshot, or NoHostCopy
    h,                          \* the device buffer each of the six array members owns
    \* locals of generate_index that live across a synchronisation
    local_to_global_read_id,
    read_id_to_basepairs_section_h,
    merged_basepairs_h,
    \* the device
    mem,                    \* content of every device buffer
    stream,                 \* operations issued on the index's CUDA stream and not yet executed
    \* the host snapshot's own completion signal
    host_copy_finished,
    \* the calling thread
    pc,                     \* where the thread that owns the index is
    last_call,              \* the last call of the public interface and what it returned
    wait_returned,          \* wait_to_be_ready() has returned at least once
    \* the other programs of the repository, each checked on its own
    details,                \* a direct call of the functions of details::index_gpu
    cudapoa,                \* the per-batch loop of the cudapoa sample
    cudaextender            \* a launch of find_high_scoring_segment_pairs

\* the variables of an IndexGPU and of the thread that owns it
index_gpu == <<reads, filtering_parameter, first_read_id_, kmer_size_, window_size_,
               number_of_reads_, number_of_basepairs_in_longest_read_, way_of_construciton_,
               is_ready_, index_host_copy_source_, h, local_to_global_read_id,
               read_id_to_basepairs_section_h, merged_basepairs_h, mem, stream,
               host_copy_finished, pc, last_call, wait_returned>>

\* the variables of the other programs
elsewhere == <<details, cudapoa, cudaextender>>

vars == <<index_gpu, elsewhere>>

\* a program that is not part of the behaviours under check
NotRunning == [pc |-> "not_running"]

\* what the constructor's arguments and the constant members are
arguments == <<reads, filtering_parameter, first_read_id_, kmer_size_, window_size_,
               way_of_construciton_, index_host_copy_source_>>

generation == "generation"
copy == "copy"

NoHostCopy == [present |-> FALSE]

\* the device buffers, all of size 0 before anything is allocated
BufferNames == {"representations_d_", "read_ids_d_", "positions_in_reads_d_",
                "directions_of_reads_d_", "unique_representations_d_",
                "first_occurrence_of_representations_d_",
                "read_id_to_basepairs_section_d", "merged_basepairs_d",
                "generated_representations_d", "generated_rest_d",
                "representation_index_mask_d",
                "number_of_sketch_elements_with_each_representation_d",
                "first_occurrence_of_representation_after_filtering_d",
                "unique_representation_index_after_filtering_d",
                "unique_representations_after_compression_d",
                "first_occurrence_of_representations_after_compression_d",
                "representations_after_compression_d", "read_ids_after_compression_d",
                "positions_in_reads_after_compression_d",
                "directions_of_representations_after_compression_d"}

NoBuffers == [b \in BufferNames |-> <<>>]

\* the six array members, each owning the buffer of its own name
OwnBuffers == [representations |-> "representations_d_",
               read_ids |-> "read_ids_d_",
               positions_in_reads |-> "positions_in_reads_d_",
               directions_of_reads |-> "directions_of_reads_d_",
               unique_representations |-> "unique_representations_d_",
               first_occurrence_of_representations |-> "first_occurrence_of_representations_d_"]

\* what the six array members hold on the device
representations_d_ == mem[h.representations]
read_ids_d_ == mem[h.read_ids]
positions_in_reads_d_ == mem[h.positions_in_reads]
directions_of_reads_d_ == mem[h.directions_of_reads]
unique_representations_d_ == mem[h.unique_representations]
first_occurrence_of_representations_d_ == mem[h.first_occurrence_of_representations]

NoCall == [op |-> "none", threw |-> FALSE, waited |-> FALSE, value |-> <<>>]

(***************************************************************************)
(* The device: what each operation issued on the stream does when the      *)
(* device gets to it.                                                      *)
(***************************************************************************)
Representations(elements) == [i \in 1..Len(elements) |-> elements[i].representation_]

Rest(elements) ==
    [i \in 1..Len(elements) |-> [read_id_ |-> elements[i].read_id_,
                                 position_in_read_ |-> elements[i].position_in_read_,
                                 direction_ |-> elements[i].direction_]]

Last(s) == s[Len(s)]

device_result(op) ==
    CASE op = "copy_read_id_to_basepairs_section" ->
            [mem EXCEPT !["read_id_to_basepairs_section_d"] = read_id_to_basepairs_section_h]
      [] op = "copy_merged_basepairs" ->
            [mem EXCEPT !["merged_basepairs_d"] = merged_basepairs_h]
      [] op = "generate_sketch_elements" ->
            LET elements == generate_sketch_elements(Len(local_to_global_read_id), kmer_size_,
                                                     window_size_, first_read_id_,
                                                     mem["merged_basepairs_d"],
                                                     mem["read_id_to_basepairs_section_d"])
            IN  [mem EXCEPT !["generated_representations_d"] = Representations(elements),
                            !["generated_rest_d"] = Rest(elements)]
      [] op = "stable_sort_by_key" ->
            LET sorted == stable_sort_by_key(mem["generated_representations_d"],
                                             mem["generated_rest_d"])
            IN  [mem EXCEPT !["generated_representations_d"] = sorted.keys,
                            !["generated_rest_d"] = sorted.values]
      [] op = "copy_rest_to_separate_arrays" ->
            LET split == copy_rest_to_separate_arrays(mem["generated_rest_d"],
                                                      Len(mem["generated_representations_d"]))
            IN  [mem EXCEPT !["read_ids_d_"] = split.read_ids,
                            !["positions_in_reads_d_"] = split.positions,
                            !["directions_of_reads_d_"] = split.directions]
      [] op = "representation_index_mask" ->
            [mem EXCEPT !["representation_index_mask_d"] =
                representation_index_mask(mem["generated_representations_d"])]
      [] op = "find_first_occurrences_of_representations_kernel" ->
            LET found == find_first_occurrences_of_representations_kernel(
                             mem["representation_index_mask_d"],
                             mem["generated_representations_d"],
                             mem["first_occurrence_of_representations_d_"],
                             mem["unique_representations_d_"])
            IN  [mem EXCEPT !["first_occurrence_of_representations_d_"] = found.starting_index,
                            !["unique_representations_d_"] = found.unique]
      [] op = "set_total_number_of_elements" ->
            [mem EXCEPT !["first_occurrence_of_representations_d_"] =
                set_last(@, Len(mem["generated_representations_d"]))]
      [] op = "set_last_count_to_zero" ->
            [mem EXCEPT !["number_of_sketch_elements_with_each_representation_d"] =
                set_last(@, 0)]
      [] op = "adjacent_difference" ->
            [mem EXCEPT !["number_of_sketch_elements_with_each_representation_d"] =
                adjacent_difference(mem["first_occurrence_of_representations_d_"], @)]
      [] op = "replace_if" ->
            [mem EXCEPT !["number_of_sketch_elements_with_each_representation_d"] =
                replace_if(@, filtering_threshold(Len(mem["generated_representations_d"]),
                                                  filtering_parameter))]
      [] op = "exclusive_scan" ->
            [mem EXCEPT !["first_occurrence_of_representation_after_filtering_d"] =
                exclusive_scan(mem["number_of_sketch_elements_with_each_representation_d"])]
      [] op = "transform_exclusive_scan" ->
            [mem EXCEPT !["unique_representation_index_after_filtering_d"] =
                transform_exclusive_scan(
                    mem["number_of_sketch_elements_with_each_representation_d"],
                    Len(mem["unique_representations_d_"]))]
      [] op = "compress_unique_representations_after_filtering_kernel" ->
            LET compressed == compress_unique_representations_after_filtering_kernel(
                                  Len(mem["unique_representations_d_"]),
                                  mem["unique_representations_d_"],
                                  mem["first_occurrence_of_representation_after_filtering_d"],
                                  mem["unique_representation_index_after_filtering_d"],
                                  mem["unique_representations_after_compression_d"],
                                  mem["first_occurrence_of_representations_after_compression_d"])
            IN  [mem EXCEPT !["unique_representations_after_compression_d"] = compressed.unique,
                            !["first_occurrence_of_representations_after_compression_d"] =
                                compressed.first]
      [] op = "compress_data_arrays_after_filtering_kernel" ->
            LET compress(before, after) ==
                    compress_data_array(
                        Len(mem["unique_representations_d_"]),
                        mem["number_of_sketch_elements_with_each_representation_d"],
                        mem["first_occurrence_of_representations_d_"],
                        mem["first_occurrence_of_representations_after_compression_d"],
                        mem["unique_representation_index_after_filtering_d"],
                        before, after)
            IN  [mem EXCEPT
                    !["representations_after_compression_d"] =
                        compress(mem["generated_representations_d"], @),
                    !["read_ids_after_compression_d"] = compress(mem["read_ids_d_"], @),
                    !["positions_in_reads_after_compression_d"] =
                        compress(mem["positions_in_reads_d_"], @),
                    !["directions_of_representations_after_compression_d"] =
                        compress(mem["directions_of_reads_d_"], @)]
      [] op = "copy_representations" ->
            [mem EXCEPT !["representations_d_"] = index_host_copy_source_.arrays.representations]
      [] op = "copy_read_ids" ->
            [mem EXCEPT !["read_ids_d_"] = index_host_copy_source_.arrays.read_ids]
      [] op = "copy_positions_in_reads" ->
            [mem EXCEPT !["positions_in_reads_d_"] = index_host_copy_source_.arrays.positions_in_reads]
      [] op = "copy_directions_of_reads" ->
            [mem EXCEPT !["directions_of_reads_d_"] = index_host_copy_source_.arrays.directions_of_reads]
      [] op = "copy_unique_representations" ->
            [mem EXCEPT !["unique_representations_d_"] =
                index_host_copy_source_.arrays.unique_representations]
      [] op = "copy_first_occurrence_of_representations" ->
            [mem EXCEPT !["first_occurrence_of_representations_d_"] =
                index_host_copy_source_.arrays.first_occurrence_of_representations]

\* the device executes the oldest operation of the stream
DeviceStep ==
    /\ stream # <<>>
    /\ mem' = device_result(Head(stream))
    /\ stream' = Tail(stream)
    /\ UNCHANGED <<elsewhere, arguments, number_of_reads_, number_of_basepairs_in_longest_read_,
                   is_ready_, h, local_to_global_read_id, read_id_to_basepairs_section_h,
                   merged_basepairs_h, host_copy_finished, pc, last_call, wait_returned>>

(***************************************************************************)
(* The algorithms run from start to end, as the stream executes them when  *)
(* nothing else is interleaved: the content of a host snapshot taken from  *)
(* a finished index.                                                       *)
(***************************************************************************)
\* find_first_occurrences_of_representations
find_first_occurrences_of_representations(input_representations) ==
    LET n     == Len(input_representations)
        mask  == representation_index_mask(input_representations)
        m     == IF n = 0 THEN 0 ELSE Last(mask)
        found == find_first_occurrences_of_representations_kernel(
                     mask, input_representations, Alloc(m + 1), Alloc(m))
    IN  [unique_representations |-> found.unique,
         first_occurrence_of_representations |-> set_last(found.starting_index, n)]

\* filter_out_most_common_representations on the six arrays of index
filter_out_most_common_representations(parameter, index) ==
    LET first_occurrence == index.first_occurrence_of_representations
        m            == Len(index.unique_representations)
        threshold    == filtering_threshold(Len(index.representations), parameter)
        counts       == replace_if(set_last(adjacent_difference(first_occurrence,
                                       set_last(Alloc(Len(first_occurrence)), 0)), 0), threshold)
        first_after  == exclusive_scan(counts)
        new_index    == transform_exclusive_scan(counts, m)
        m_after      == Last(new_index)
        compressed   == compress_unique_representations_after_filtering_kernel(
                            m, index.unique_representations, first_after, new_index,
                            Alloc(m_after), Alloc(m_after + 1))
        n_after      == Last(compressed.first)
        compress(before, after) == compress_data_array(m, counts, first_occurrence,
                                                       compressed.first, new_index, before, after)
    IN  [representations |-> compress(index.representations, Alloc(n_after)),
         read_ids |-> compress(index.read_ids, Alloc(n_after)),
         positions_in_reads |-> compress(index.positions_in_reads, Alloc(n_after)),
         directions_of_reads |-> compress(index.directions_of_reads, AllocDirections(n_after)),
         unique_representations |-> compressed.unique,
         first_occurrence_of_representations |-> compressed.first]

EmptyArrays == [representations |-> <<>>, read_ids |-> <<>>, positions_in_reads |-> <<>>,
                directions_of_reads |-> <<>>, unique_representations |-> <<>>,
                first_occurrence_of_representations |-> <<>>]

\* the six arrays generate_index leaves behind
generate_index(rds, first_read_id, k, w, parameter) ==
    LET counted == count_basepairs(rds, first_read_id, Len(rds), k, w)
    IN  IF Len(rds) = 0 \/ counted.total_basepairs = 0 THEN EmptyArrays
        ELSE LET merged   == merge_basepairs(rds, first_read_id, counted.local_to_global_read_id,
                                             counted.sections,
                                             [i \in 1..counted.total_basepairs |-> 0],
                                             Len(counted.local_to_global_read_id))
                 elements == generate_sketch_elements(Len(counted.local_to_global_read_id), k, w,
                                                      first_read_id, merged, counted.sections)
                 sorted   == stable_sort_by_key(Representations(elements), Rest(elements))
                 split    == copy_rest_to_separate_arrays(sorted.values, Len(sorted.keys))
                 grouped  == find_first_occurrences_of_representations(sorted.keys)
                 index    == [representations |-> sorted.keys,
                              read_ids |-> split.read_ids,
                              positions_in_reads |-> split.positions,
                              directions_of_reads |-> split.directions,
                              unique_representations |-> grouped.unique_representations,
                              first_occurrence_of_representations |->
                                  grouped.first_occurrence_of_representations]
             IN  IF parameter < 1000
                 THEN filter_out_most_common_representations(parameter, index)
                 ELSE index

\* an IndexHostCopy of the index built from the given arguments
IndexHostCopy(rds, first_read_id, k, w, parameter) ==
    LET counted == count_basepairs(rds, first_read_id, Len(rds), k, w)
        empty   == Len(rds) = 0 \/ counted.total_basepairs = 0
    IN  [present |-> TRUE,
         arrays |-> generate_index(rds, first_read_id, k, w, parameter),
         first_read_id |-> first_read_id,
         kmer_size |-> k,
         window_size |-> w,
         number_of_reads |-> IF empty THEN 0 ELSE Len(rds),
         number_of_basepairs_in_longest_read |-> IF empty THEN 0 ELSE counted.longest]

\* the host snapshots a caller may hand to the copy constructor
HostCopies ==
    {IndexHostCopy(rds, first, k, w, parameter) :
        rds \in ReadRanges, first \in FirstReadIds,
        k \in KmerSizes, w \in WindowSizes, parameter \in FilteringParameters}

(***************************************************************************)
(* Init: the members as the constructors' initialiser lists leave them,    *)
(* before the body of the constructor runs.                                *)
(***************************************************************************)
InitGeneration ==
    /\ way_of_construciton_ = generation
    /\ reads \in ReadRanges
    /\ filtering_parameter \in FilteringParameters
    /\ first_read_id_ \in FirstReadIds
    /\ kmer_size_ \in KmerSizes
    /\ window_size_ \in WindowSizes
    /\ index_host_copy_source_ = NoHostCopy
    /\ host_copy_finished = TRUE
    /\ pc = "generate_index"

InitCopy ==
    /\ way_of_construciton_ = copy
    /\ index_host_copy_source_ \in HostCopies
    /\ reads = <<>>
    /\ filtering_parameter = 1000
    /\ first_read_id_ = index_host_copy_source_.first_read_id
    /\ kmer_size_ = index_host_copy_source_.kmer_size
    /\ window_size_ = index_host_copy_source_.window_size
    /\ host_copy_finished = FALSE
    /\ pc = "constructor_copy"

Init ==
    /\ InitGeneration \/ InitCopy
    /\ number_of_reads_ = 0
    /\ number_of_basepairs_in_longest_read_ = 0
    /\ is_ready_ = FALSE
    /\ h = OwnBuffers
    /\ local_to_global_read_id = <<>>
    /\ read_id_to_basepairs_section_h = <<>>
    /\ merged_basepairs_h = <<>>
    /\ mem = NoBuffers
    /\ stream = <<>>
    /\ last_call = NoCall
    /\ wait_returned = FALSE
    /\ details = NotRunning
    /\ cudapoa = NotRunning
    /\ cudaextender = NotRunning

(***************************************************************************)
(* The generating constructor: generate_index, cut where the calling       *)
(* thread waits for the stream.                                            *)
(***************************************************************************)
\* generate_index up to cudaStreamSynchronize
GenerateIndex ==
    /\ pc = "generate_index"
    /\ LET past_the_last_read_id == first_read_id_ + Len(reads)
           counted == count_basepairs(reads, first_read_id_, Len(reads), kmer_size_, window_size_)
       IN  IF first_read_id_ >= past_the_last_read_id
           THEN /\ number_of_reads_' = 0
                /\ pc' = "constructed"
                /\ UNCHANGED <<number_of_basepairs_in_longest_read_, local_to_global_read_id,
                               read_id_to_basepairs_section_h, merged_basepairs_h, mem, stream>>
           ELSE IF 0 = counted.total_basepairs
           THEN /\ number_of_reads_' = 0
                /\ number_of_basepairs_in_longest_read_' = 0
                /\ pc' = "constructed"
                /\ UNCHANGED <<local_to_global_read_id, read_id_to_basepairs_section_h,
                               merged_basepairs_h, mem, stream>>
           ELSE /\ number_of_reads_' = past_the_last_read_id - first_read_id_
                /\ number_of_basepairs_in_longest_read_' = counted.longest
                /\ local_to_global_read_id' = counted.local_to_global_read_id
                /\ read_id_to_basepairs_section_h' = counted.sections
                /\ merged_basepairs_h' =
                       merge_basepairs(reads, first_read_id_, counted.local_to_global_read_id,
                                       counted.sections,
                                       [i \in 1..counted.total_basepairs |-> 0],
                                       Len(counted.local_to_global_read_id))
                /\ mem' = [mem EXCEPT
                              !["read_id_to_basepairs_section_d"] =
                                  AllocSections(Len(counted.sections)),
                              !["merged_basepairs_d"] = Alloc(counted.total_basepairs)]
                /\ stream' = stream \o <<"copy_read_id_to_basepairs_section",
                                         "copy_merged_basepairs",
                                         "generate_sketch_elements">>
                /\ pc' = "generate_index_synchronize"
    /\ UNCHANGED <<elsewhere, arguments, is_ready_, h, host_copy_finished, last_call, wait_returned>>

\* the operations filter_out_most_common_representations issues before it
\* reads the number of unique representations that are left
FilterIssued(m) ==
    [buffers |-> [b \in {"number_of_sketch_elements_with_each_representation_d",
                         "first_occurrence_of_representation_after_filtering_d",
                         "unique_representation_index_after_filtering_d"} |-> Alloc(m + 1)],
     operations |-> <<"set_last_count_to_zero", "adjacent_difference", "set_last_count_to_zero",
                      "replace_if", "exclusive_scan", "transform_exclusive_scan">>]

\* a guard that lets the filter run with filtering_parameter == 1.0 too
filtering_up_to_one(parameter) == parameter <= 1000

\* is the filter run at all
filtering_enabled(parameter) == parameter < 1000

\* generate_index from cudaStreamSynchronize to the point where
\* find_first_occurrences_of_representations reads the number of groups
GenerateIndexSort ==
    /\ pc = "generate_index_synchronize"
    /\ stream = <<>>
    /\ LET n == Len(mem["generated_representations_d"])
       IN  /\ merged_basepairs_h' = <<>>
           /\ h' = [h EXCEPT !.representations = "generated_representations_d"]
           /\ mem' = [mem EXCEPT !["read_id_to_basepairs_section_d"] = <<>>,
                                 !["merged_basepairs_d"] = <<>>,
                                 !["read_ids_d_"] = Alloc(n),
                                 !["positions_in_reads_d_"] = Alloc(n),
                                 !["directions_of_reads_d_"] = AllocDirections(n),
                                 !["representation_index_mask_d"] = Alloc(n)]
           /\ stream' = <<"stable_sort_by_key", "copy_rest_to_separate_arrays",
                          "representation_index_mask">>
    /\ pc' = "find_first_occurrences_get_value"
    /\ UNCHANGED <<elsewhere, arguments, number_of_reads_, number_of_basepairs_in_longest_read_, is_ready_,
                   local_to_global_read_id, read_id_to_basepairs_section_h,
                   host_copy_finished, last_call, wait_returned>>

\* the rest of find_first_occurrences_of_representations and, if filtering is
\* on, filter_out_most_common_representations up to its first read from the device
GenerateIndexGroup ==
    /\ pc = "find_first_occurrences_get_value"
    /\ stream = <<>>
    /\ LET n == Len(mem["generated_representations_d"])
           m == IF n = 0 THEN 0 ELSE Last(mem["representation_index_mask_d"])
           grouped == [mem EXCEPT !["unique_representations_d_"] = Alloc(m),
                                  !["first_occurrence_of_representations_d_"] = Alloc(m + 1)]
           issued == <<"find_first_occurrences_of_representations_kernel",
                       "set_total_number_of_elements">>
       IN  IF filtering_enabled(filtering_parameter)
           THEN /\ mem' = [b \in BufferNames |->
                              IF b \in DOMAIN FilterIssued(m).buffers
                              THEN FilterIssued(m).buffers[b] ELSE grouped[b]]
                /\ stream' = issued \o FilterIssued(m).operations
                /\ pc' = "filter_get_number_of_unique_representations"
           ELSE /\ mem' = grouped
                /\ stream' = issued
                /\ pc' = "constructed"
    /\ UNCHANGED <<elsewhere, arguments, number_of_reads_, number_of_basepairs_in_longest_read_, is_ready_,
                   h, local_to_global_read_id, read_id_to_basepairs_section_h,
                   merged_basepairs_h, host_copy_finished, last_call, wait_returned>>

\* filter_out_most_common_representations between its two reads from the device
FilterCompressUnique ==
    /\ pc = "filter_get_number_of_unique_representations"
    /\ stream = <<>>
    /\ LET number_of_unique_representations_after_compression ==
               Last(mem["unique_representation_index_after_filtering_d"])
       IN  mem' = [mem EXCEPT
                      !["unique_representations_after_compression_d"] =
                          Alloc(number_of_unique_representations_after_compression),
                      !["first_occurrence_of_representations_after_compression_d"] =
                          Alloc(number_of_unique_representations_after_compression + 1)]
    /\ stream' = <<"compress_unique_representations_after_filtering_kernel">>
    /\ pc' = "filter_get_number_of_sketch_elements"
    /\ UNCHANGED <<elsewhere, arguments, number_of_reads_, number_of_basepairs_in_longest_read_, is_ready_,
                   h, local_to_global_read_id, read_id_to_basepairs_section_h,
                   merged_basepairs_h, host_copy_finished, last_call, wait_returned>>

\* the six swaps at the end of filter_out_most_common_representations
SwappedBuffers ==
    [representations |-> "representations_after_compression_d",
     read_ids |-> "read_ids_after_compression_d",
     positions_in_reads |-> "positions_in_reads_after_compression_d",
     directions_of_reads |-> "directions_of_representations_after_compression_d",
     unique_representations |-> "unique_representations_after_compression_d",
     first_occurrence_of_representations |->
         "first_occurrence_of_representations_after_compression_d"]

\* filter_out_most_common_representations from its second read from the
\* device to its end; generate_index and the constructor return
FilterCompressData ==
    /\ pc = "filter_get_number_of_sketch_elements"
    /\ stream = <<>>
    /\ LET number_of_sketch_elements_after_compression ==
               Last(mem["first_occurrence_of_representations_after_compression_d"])
           n == number_of_sketch_elements_after_compression
       IN  mem' = [mem EXCEPT !["representations_after_compression_d"] = Alloc(n),
                              !["read_ids_after_compression_d"] = Alloc(n),
                              !["positions_in_reads_after_compression_d"] = Alloc(n),
                              !["directions_of_representations_after_compression_d"] =
                                  AllocDirections(n)]
    /\ stream' = <<"compress_data_arrays_after_filtering_kernel">>
    /\ h' = SwappedBuffers
    /\ pc' = "constructed"
    /\ UNCHANGED <<elsewhere, arguments, number_of_reads_, number_of_basepairs_in_longest_read_, is_ready_,
                   local_to_global_read_id, read_id_to_basepairs_section_h,
                   merged_basepairs_h, host_copy_finished, last_call, wait_returned>>

(***************************************************************************)
(* The copy constructor.                                                   *)
(***************************************************************************)
CopyOperations == <<"copy_representations", "copy_read_ids", "copy_positions_in_reads",
                    "copy_directions_of_reads", "copy_unique_representations",
                    "copy_first_occurrence_of_representations">>

\* the body shared by ConstructorCopy and its variant below
ConstructorCopyBody ==
    /\ pc = "constructor_copy"
    /\ LET source == index_host_copy_source_.arrays
       IN  mem' = [mem EXCEPT
                      !["representations_d_"] = Alloc(Len(source.representations)),
                      !["read_ids_d_"] = Alloc(Len(source.read_ids)),
                      !["positions_in_reads_d_"] = Alloc(Len(source.positions_in_reads)),
                      !["directions_of_reads_d_"] =
                          AllocDirections(Len(source.directions_of_reads)),
                      !["unique_representations_d_"] = Alloc(Len(source.unique_representations)),
                      !["first_occurrence_of_representations_d_"] =
                          Alloc(Len(source.first_occurrence_of_representations))]
    /\ number_of_reads_' = index_host_copy_source_.number_of_reads
    /\ number_of_basepairs_in_longest_read_' =
           index_host_copy_source_.number_of_basepairs_in_longest_read
    /\ stream' = stream \o CopyOperations
    /\ pc' = "constructed"
    /\ UNCHANGED <<elsewhere, arguments, is_ready_, h, local_to_global_read_id,
                   read_id_to_basepairs_section_h, merged_basepairs_h, host_copy_finished,
                   last_call, wait_returned>>

\* a copy constructor that calls finish_copying() before it issues its transfers
ConstructorCopyWaits == host_copy_finished /\ ConstructorCopyBody

\* the copy constructor: allocates the six arrays, issues six transfers and returns
ConstructorCopy == ConstructorCopyBody

\* the host snapshot signals that its own work is done
HostCopyFinishes ==
    /\ way_of_construciton_ = copy
    /\ ~host_copy_finished
    /\ host_copy_finished' = TRUE
    /\ UNCHANGED <<elsewhere, arguments, number_of_reads_, number_of_basepairs_in_longest_read_, is_ready_,
                   h, local_to_global_read_id, read_id_to_basepairs_section_h,
                   merged_basepairs_h, mem, stream, pc, last_call, wait_returned>>

\* where the calling thread is inside a constructor
ConstructorPcs == {"generate_index", "generate_index_synchronize",
                   "find_first_occurrences_get_value",
                   "filter_get_number_of_unique_representations",
                   "filter_get_number_of_sketch_elements", "constructor_copy"}

\* an allocation or a CUDA call fails: the constructor does not return an object
ConstructionFails ==
    /\ pc \in ConstructorPcs
    /\ pc' = "failed"
    /\ UNCHANGED <<elsewhere, arguments, number_of_reads_, number_of_basepairs_in_longest_read_, is_ready_,
                   h, local_to_global_read_id, read_id_to_basepairs_section_h,
                   merged_basepairs_h, mem, stream, host_copy_finished, last_call,
                   wait_returned>>

(***************************************************************************)
(* The public interface of a constructed index.                            *)
(***************************************************************************)
is_ready == is_ready_

\* the calling thread holds a constructed index and is not inside a call
Constructed == pc = "constructed"

\* an accessor that hands out its member without looking at is_ready()
return_without_check(ready, value) == [threw |-> FALSE, value |-> value]

\* the start of every accessor: throw IndexNotReadyException unless is_ready()
throw_if_not_ready(ready, value) ==
    IF ~ready THEN [threw |-> TRUE, value |-> <<>>]
    ELSE [threw |-> FALSE, value |-> value]

\* an accessor that hands its caller the representations by moving them out
AccessorMovingOut(name, value) ==
    /\ Constructed
    /\ last_call' = [op |-> name, threw |-> ~is_ready, waited |-> FALSE,
                     value |-> IF is_ready THEN value ELSE <<>>]
    /\ mem' = [mem EXCEPT ![h.representations] = <<>>]
    /\ UNCHANGED <<elsewhere, arguments, number_of_reads_, number_of_basepairs_in_longest_read_, is_ready_,
                   h, local_to_global_read_id, read_id_to_basepairs_section_h,
                   merged_basepairs_h, stream, host_copy_finished, pc, wait_returned>>

\* an accessor is called and returns value, or throws
Accessor(name, value) ==
    /\ Constructed
    /\ LET outcome == throw_if_not_ready(is_ready, value)
       IN  last_call' = [op |-> name, threw |-> outcome.threw, waited |-> FALSE,
                         value |-> outcome.value]
    /\ UNCHANGED <<elsewhere, arguments, number_of_reads_, number_of_basepairs_in_longest_read_, is_ready_,
                   h, local_to_global_read_id, read_id_to_basepairs_section_h,
                   merged_basepairs_h, mem, stream, host_copy_finished, pc, wait_returned>>

representations == Accessor("representations", representations_d_)
read_ids == Accessor("read_ids", read_ids_d_)
positions_in_reads == Accessor("positions_in_reads", positions_in_reads_d_)
directions_of_reads == Accessor("directions_of_reads", directions_of_reads_d_)
unique_representations == Accessor("unique_representations", unique_representations_d_)
first_occurrence_of_representations ==
    Accessor("first_occurrence_of_representations", first_occurrence_of_representations_d_)
\* a number_of_reads() that counts the reads handed to sketch generation
number_of_qualifying_reads == Accessor("number_of_reads", <<Len(local_to_global_read_id)>>)

number_of_reads == Accessor("number_of_reads", <<number_of_reads_>>)
\* a smallest_read_id() that does not look at number_of_reads_
smallest_read_id_of_any_index == Accessor("smallest_read_id", <<first_read_id_>>)

smallest_read_id ==
    Accessor("smallest_read_id", <<IF number_of_reads_ > 0 THEN first_read_id_ ELSE 0>>)
largest_read_id ==
    Accessor("largest_read_id",
             <<IF number_of_reads_ > 0 THEN first_read_id_ + number_of_reads_ - 1 ELSE 0>>)
number_of_basepairs_in_longest_read ==
    Accessor("number_of_basepairs_in_longest_read", <<number_of_basepairs_in_longest_read_>>)

AccessorNames == {"representations", "read_ids", "positions_in_reads", "directions_of_reads",
                  "unique_representations", "first_occurrence_of_representations",
                  "number_of_reads", "smallest_read_id", "largest_read_id",
                  "number_of_basepairs_in_longest_read"}

\* an is_ready() that polls the stream and latches the flag once it is idle
IsReadyWhenStreamIsIdle ==
    /\ Constructed
    /\ is_ready_' = (is_ready_ \/ stream = <<>>)
    /\ last_call' = [op |-> "is_ready", threw |-> FALSE, waited |-> FALSE, value |-> <<is_ready_'>>]
    /\ UNCHANGED <<elsewhere, arguments, number_of_reads_, number_of_basepairs_in_longest_read_,
                   h, local_to_global_read_id, read_id_to_basepairs_section_h,
                   merged_basepairs_h, mem, stream, host_copy_finished, pc, wait_returned>>

\* is_ready() is called
IsReady ==
    /\ Constructed
    /\ last_call' = [op |-> "is_ready", threw |-> FALSE, waited |-> FALSE, value |-> <<is_ready>>]
    /\ UNCHANGED <<elsewhere, arguments, number_of_reads_, number_of_basepairs_in_longest_read_, is_ready_,
                   h, local_to_global_read_id, read_id_to_basepairs_section_h,
                   merged_basepairs_h, mem, stream, host_copy_finished, pc, wait_returned>>

\* a wait_to_be_ready() that sets is_ready_ without waiting for anything
wait_for_nothing(way, issued, finished) == TRUE

\* what wait_to_be_ready() waits for before it sets is_ready_
wait_is_over(way, issued, finished) ==
    IF way = generation THEN issued = <<>>      \* cudaStreamSynchronize(cuda_stream_generation_)
    ELSE finished                               \* index_host_copy_source_->finish_copying()

\* the value wait_to_be_ready() leaves in is_ready_
ready_after_wait(ready) == TRUE

\* a wait_to_be_ready() that does not look at is_ready(): it clears the flag
\* and waits, whatever the state of the index
WaitToBeReadyAlwaysWaits ==
    /\ pc = "constructed"
    /\ is_ready_' = FALSE
    /\ last_call' = [op |-> "wait_to_be_ready", threw |-> FALSE, waited |-> TRUE, value |-> <<>>]
    /\ pc' = "wait_to_be_ready"
    /\ UNCHANGED <<elsewhere, arguments, number_of_reads_, number_of_basepairs_in_longest_read_,
                   h, local_to_global_read_id, read_id_to_basepairs_section_h,
                   merged_basepairs_h, mem, stream, host_copy_finished, wait_returned>>

\* wait_to_be_ready() is called: it returns at once if is_ready(), and starts
\* to wait otherwise (last_call.waited tells which)
WaitToBeReady ==
    /\ pc = "constructed"
    /\ IF is_ready
       THEN /\ last_call' = [op |-> "wait_to_be_ready", threw |-> FALSE, waited |-> FALSE,
                             value |-> <<>>]
            /\ wait_returned' = TRUE
            /\ pc' = pc
       ELSE /\ last_call' = [op |-> "wait_to_be_ready", threw |-> FALSE, waited |-> TRUE,
                             value |-> <<>>]
            /\ pc' = "wait_to_be_ready"
            /\ UNCHANGED wait_returned
    /\ UNCHANGED <<elsewhere, arguments, number_of_reads_, number_of_basepairs_in_longest_read_, is_ready_,
                   h, local_to_global_read_id, read_id_to_basepairs_section_h,
                   merged_basepairs_h, mem, stream, host_copy_finished>>

\* the wait inside wait_to_be_ready() is over: is_ready_ is set and the call returns
WaitToBeReadyReturns ==
    /\ pc = "wait_to_be_ready"
    /\ wait_is_over(way_of_construciton_, stream, host_copy_finished)
    /\ is_ready_' = ready_after_wait(is_ready_)
    /\ wait_returned' = TRUE
    /\ pc' = "constructed"
    /\ UNCHANGED <<elsewhere, arguments, number_of_reads_, number_of_basepairs_in_longest_read_,
                   h, local_to_global_read_id, read_id_to_basepairs_section_h,
                   merged_basepairs_h, mem, stream, host_copy_finished, last_call>>

Next ==
    \/ GenerateIndex
    \/ GenerateIndexSort
    \/ GenerateIndexGroup
    \/ FilterCompressUnique
    \/ FilterCompressData
    \/ ConstructorCopy
    \/ ConstructionFails
    \/ DeviceStep
    \/ HostCopyFinishes
    \/ representations
    \/ read_ids
    \/ positions_in_reads
    \/ directions_of_reads
    \/ unique_representations
    \/ first_occurrence_of_representations
    \/ number_of_reads
    \/ smallest_read_id
    \/ largest_read_id
    \/ number_of_basepairs_in_longest_read
    \/ IsReady
    \/ WaitToBeReady
    \/ WaitToBeReadyReturns

Spec == Init /\ [][Next]_vars

(***************************************************************************)
(* Readiness gate.                                                         *)
(***************************************************************************)
\* C1: while the index is not ready, the last accessor called (any of the
\* ten, on an index of either constructor) threw IndexNotReadyException and
\* returned no data.
C1_AccessorsThrowWhileBuilding ==
    (last_call.op \in AccessorNames /\ ~is_ready)
        => (last_call.threw /\ last_call.value = <<>>)

\* an array accessor has thrown on a copied index whose transfers are all done
C1_Witness ==
    /\ way_of_construciton_ = copy
    /\ ~is_ready
    /\ stream = <<>>
    /\ host_copy_finished
    /\ last_call.op = "first_occurrence_of_representations"
    /\ last_call.threw

\* C2: the index starts not ready, and no step takes is_ready() from true
\* back to false.
C2_ReadinessIsOneWay ==
    /\ ~is_ready
    /\ [][is_ready => is_ready']_vars

\* is_ready() has returned true
C2_Witness ==
    /\ last_call.op = "is_ready"
    /\ last_call.value = <<TRUE>>

\* C4: on a generated index, once wait_to_be_ready() has returned, nothing
\* issued on the generation stream is left to execute and is_ready() is true.
C4_WaitDrainsGenerationStream ==
    (way_of_construciton_ = generation /\ wait_returned)
        => (stream = <<>> /\ is_ready)

\* wait_to_be_ready() has waited and returned on a generated, filtered index
\* that still holds elements
C4_Witness ==
    /\ way_of_construciton_ = generation
    /\ wait_returned
    /\ last_call.op = "wait_to_be_ready"
    /\ last_call.waited
    /\ filtering_enabled(filtering_parameter)
    /\ Len(representations_d_) > 0

\* C5: on a copied index, once wait_to_be_ready() has returned (and whenever
\* the index is ready), the host snapshot has signalled completion and the
\* six transfers issued by the copy constructor have all been executed.
C5_WaitCoversSnapshotAndTransfers ==
    (way_of_construciton_ = copy /\ (wait_returned \/ is_ready))
        => (host_copy_finished /\ stream = <<>>)

\* C6: a call of wait_to_be_ready() on an index that is ready does not wait
\* and changes neither the readiness, nor the arrays, nor the metadata.
C6_WaitIsIdempotent ==
    [][(is_ready /\ WaitToBeReady)
          => /\ pc' = "constructed"
             /\ ~last_call'.waited
             /\ UNCHANGED <<is_ready_, mem, h, stream, first_read_id_, kmer_size_, window_size_,
                            number_of_reads_, number_of_basepairs_in_longest_read_>>]_vars

\* wait_to_be_ready() has been called on a ready index
C6_Witness ==
    /\ is_ready
    /\ last_call.op = "wait_to_be_ready"
    /\ ~last_call.waited

(***************************************************************************)
(* What a reader of the six arrays can see.  A cell that was allocated and *)
(* not yet written holds any value of its type.                            *)
(***************************************************************************)
RECURSIVE Concretizations(_, _, _)
\* the contents a buffer may show: marker cells replaced by any of values
Concretizations(buffer, values, marker) ==
    IF Len(buffer) = 0 THEN {<<>>}
    ELSE LET n == Len(buffer)
         IN  {Append(front, x) :
                 front \in Concretizations(SubSeq(buffer, 1, n - 1), values, marker),
                 x \in (IF buffer[n] = marker THEN values ELSE {buffer[n]})}

RepresentationValues == 0 .. (Cardinality(Bases) ^ kmer_size_ - 1)
IndexValues == 0 .. MaxBasepairs
ReadIdValues == first_read_id_ .. (first_read_id_ + MaxBasepairs)

ObservableArrays ==
    [representations : Concretizations(representations_d_, RepresentationValues, UNINIT),
     read_ids : Concretizations(read_ids_d_, ReadIdValues, UNINIT),
     positions_in_reads : Concretizations(positions_in_reads_d_, IndexValues, UNINIT),
     directions_of_reads :
         Concretizations(directions_of_reads_d_, {FORWARD, REVERSE}, UNINIT_DIRECTION),
     unique_representations :
         Concretizations(unique_representations_d_, RepresentationValues, UNINIT),
     first_occurrence_of_representations :
         Concretizations(first_occurrence_of_representations_d_, IndexValues, UNINIT)]

\* no cell of the six arrays is waiting to be written
AllWritten == Cardinality(ObservableArrays) = 1

(***************************************************************************)
(* The invariants of the data model, on one content a of the six arrays.   *)
(***************************************************************************)
EqualLengths(a) ==
    /\ Len(a.read_ids) = Len(a.representations)
    /\ Len(a.positions_in_reads) = Len(a.representations)
    /\ Len(a.directions_of_reads) = Len(a.representations)

Ascending(s) == \A i \in 1..(Len(s) - 1) : s[i] <= s[i + 1]

StrictlyAscending(s) == \A i \in 1..(Len(s) - 1) : s[i] < s[i + 1]

\* inside a run of equal representations: by read_id, then by position
RunsOrdered(a) ==
    \A i \in 1..(Len(a.representations) - 1) :
        a.representations[i] = a.representations[i + 1]
            => \/ a.read_ids[i] < a.read_ids[i + 1]
               \/ /\ a.read_ids[i] = a.read_ids[i + 1]
                  /\ a.positions_in_reads[i] <= a.positions_in_reads[i + 1]

\* first_occurrence against representations and unique_representations
FirstOccurrenceMatches(a) ==
    LET first == a.first_occurrence_of_representations
    IN  /\ Len(first) >= 1
        /\ StrictlyAscending(first)
        /\ first[1] = 0
        /\ first[Len(first)] = Len(a.representations)
        /\ \A i \in 1..Len(a.unique_representations) :
              /\ i <= Len(first)
              /\ first[i] + 1 \in 1..Len(a.representations)
              /\ a.unique_representations[i] = a.representations[first[i] + 1]

Consistent(a) ==
    /\ EqualLengths(a)
    /\ Ascending(a.representations)
    /\ RunsOrdered(a)
    /\ StrictlyAscending(a.unique_representations)
    /\ Len(a.first_occurrence_of_representations) = Len(a.unique_representations) + 1
    /\ FirstOccurrenceMatches(a)

\* the six members own either the buffers generation filled or the six
\* buffers the filter compacted into, never some of each
MembersFromOneSet ==
    \/ h = OwnBuffers
    \/ h = [OwnBuffers EXCEPT !.representations = "generated_representations_d"]
    \/ h = SwappedBuffers

\* C3: an index is either not ready, and then every accessor refuses, or
\* ready, and then whatever a reader sees in the six arrays is consistent
\* with the data model; the members never own a mix of old and compacted
\* buffers, and a construction that failed is never ready.
C3_BuildingOrConsistent ==
    /\ (~is_ready /\ last_call.op \in AccessorNames) => last_call.threw
    /\ is_ready => \A a \in ObservableArrays : Consistent(a)
    /\ pc \in {"constructed", "wait_to_be_ready"} => MembersFromOneSet
    /\ pc = "failed" => ~is_ready

(***************************************************************************)
(* Suspension of the calling thread.                                       *)
(***************************************************************************)
\* the steps by which the calling thread gets on inside a constructor or a call
HostProgress ==
    \/ GenerateIndex
    \/ GenerateIndexSort
    \/ GenerateIndexGroup
    \/ FilterCompressUnique
    \/ FilterCompressData
    \/ ConstructorCopy
    \/ WaitToBeReadyReturns

\* the calling thread is inside a constructor or a call and cannot go on
Suspended == pc \notin {"constructed", "failed"} /\ ~ENABLED HostProgress

\* where generate_index waits for the stream
GenerateIndexWaits == {"generate_index_synchronize", "find_first_occurrences_get_value",
                       "filter_get_number_of_unique_representations",
                       "filter_get_number_of_sketch_elements"}

\* C7 as stated: the calling thread is suspended only inside wait_to_be_ready().
C7_OnlyWaitSuspends == Suspended => pc = "wait_to_be_ready"

\* C7 as amended: the calling thread is suspended only inside
\* wait_to_be_ready() or, in the generating constructor of an index with at
\* least one qualifying read, where generate_index synchronises the stream or
\* reads a value back from the device; the copy constructor and a generation
\* without qualifying reads never wait.
C7_WaitAndGenerationSuspend ==
    Suspended =>
        \/ pc = "wait_to_be_ready"
        \/ /\ pc \in GenerateIndexWaits
           /\ way_of_construciton_ = generation
           /\ Len(local_to_global_read_id) > 0

\* the generating constructor is waiting at cudaStreamSynchronize for the
\* generation of the sketch elements
C7_Witness ==
    /\ Suspended
    /\ pc = "generate_index_synchronize"
    /\ stream # <<>>

(***************************************************************************)
(* Invariants of the arrays of a ready index.                              *)
(***************************************************************************)
\* C8: in a ready index, however constructed, the four data arrays have
\* the same length and representations is ascending, whatever a reader sees.
C8_EqualLengthsAndAscending ==
    is_ready => \A a \in ObservableArrays : EqualLengths(a) /\ Ascending(a.representations)

\* C9: in a ready generated index, filtered or not, every run of equal
\* representations is ordered by read_id and then by position.
C9_RunsOrderedByReadThenPosition ==
    (is_ready /\ way_of_construciton_ = generation)
        => AllWritten /\ \A a \in ObservableArrays : RunsOrdered(a)

\* a ready generated index in which two neighbours with the same
\* representation come from different reads
C9_Witness ==
    /\ is_ready
    /\ way_of_construciton_ = generation
    /\ \E i \in 1..(Len(representations_d_) - 1) :
          /\ representations_d_[i] = representations_d_[i + 1]
          /\ read_ids_d_[i] < read_ids_d_[i + 1]

\* C10: in a ready index generated from at least one qualifying read,
\* filtered or not, first_occurrence is strictly increasing from 0 to the
\* number of elements and points at the first element of every unique
\* representation.
C10_FirstOccurrenceMatches ==
    (is_ready /\ way_of_construciton_ = generation /\ Len(local_to_global_read_id) > 0)
        => AllWritten /\ \A a \in ObservableArrays : FirstOccurrenceMatches(a)

\* a ready generated index from which the filter has removed one
\* representation and kept another
C10_Witness ==
    /\ is_ready
    /\ way_of_construciton_ = generation
    /\ h = SwappedBuffers
    /\ Len(unique_representations_d_) >= 1
    /\ Len(representations_d_) < Len(mem["generated_representations_d"])

(***************************************************************************)
(* The filter, seen from a ready index: the arrays it was given stay in    *)
(* the buffers generation filled, the members own the compacted ones.      *)
(***************************************************************************)
Range(s) == {s[i] : i \in 1..Len(s)}

\* number of elements of s equal to r
Count(r, s) == Cardinality({i \in 1..Len(s) : s[i] = r})

\* the generating constructor ran the filter and the index is ready
Filtered == is_ready /\ way_of_construciton_ = generation /\ h = SwappedBuffers

\* the sorted representations the filter was given
representations_before_filtering == mem["generated_representations_d"]

\* C11: in every ready index first_occurrence has one entry more than
\* unique_representations, also when no read qualified and when the filter
\* removed every element.
C11_FirstOccurrenceOneLonger ==
    is_ready => Len(first_occurrence_of_representations_d_) = Len(unique_representations_d_) + 1

\* C12: after filtering total_before elements with parameter p < 1 and
\* T = floor(total_before * p + 0.001), every representation of the output
\* had fewer than T elements in the input and every representation with T
\* or more elements (T exactly too) is absent from the output.
C12_ThresholdSeparatesKeptFromRemoved ==
    Filtered =>
        LET before == representations_before_filtering
            T      == (Len(before) * filtering_parameter + 1) \div 1000
        IN  /\ Range(representations_d_) \subseteq Range(before)
            /\ Range(unique_representations_d_) \subseteq Range(before)
            /\ \A r \in Range(before) :
                  /\ r \in Range(representations_d_) \cup Range(unique_representations_d_)
                        => Count(r, before) < T
                  /\ Count(r, before) >= T
                        => r \notin Range(representations_d_) \cup Range(unique_representations_d_)

\* a filtered ready index that lost a representation with exactly T elements
\* and kept another one
C12_Witness ==
    /\ Filtered
    /\ Len(representations_d_) > 0
    /\ LET before == representations_before_filtering
           T      == (Len(before) * filtering_parameter + 1) \div 1000
       IN  \E r \in Range(before) : Count(r, before) = T /\ r \notin Range(representations_d_)

\* C13: the filter removes a representation if and only if its number of
\* elements divided by the total number of elements is >= filtering_parameter,
\* compared exactly.
C13_ExactRatioDecides ==
    Filtered =>
        LET before == representations_before_filtering
        IN  \A r \in Range(before) :
                (Count(r, before) * 1000 >= Len(before) * filtering_parameter)
                    <=> r \notin Range(representations_d_)

\* C14: with filtering_parameter = 1.0 the filter is never run: none of its
\* buffers is allocated, the members keep the buffers generation filled, and
\* the six arrays are the sorted elements and their grouping, also when one
\* representation accounts for every element.
C14_ParameterOneBypassesFilter ==
    (is_ready /\ way_of_construciton_ = generation /\ filtering_parameter = 1000)
        => /\ h \in {OwnBuffers,
                     [OwnBuffers EXCEPT !.representations = "generated_representations_d"]}
           /\ \A b \in DOMAIN FilterIssued(0).buffers : mem[b] = <<>>
           /\ \A b \in {SwappedBuffers[a] : a \in DOMAIN SwappedBuffers} : mem[b] = <<>>
           /\ representations_d_ = representations_before_filtering
           /\ Len(local_to_global_read_id) > 0 =>
                 /\ unique_representations_d_ =
                        find_first_occurrences_of_representations(
                            representations_before_filtering).unique_representations
                 /\ first_occurrence_of_representations_d_ =
                        find_first_occurrences_of_representations(
                            representations_before_filtering).first_occurrence_of_representations
                 /\ Len(read_ids_d_) = Len(representations_before_filtering)

\* a ready index built with filtering_parameter = 1.0 in which one
\* representation accounts for all of two or more elements
C14_Witness ==
    /\ is_ready
    /\ way_of_construciton_ = generation
    /\ filtering_parameter = 1000
    /\ Len(representations_d_) >= 2
    /\ Len(unique_representations_d_) = 1

(***************************************************************************)
(* Snapshot, empty index, read ids, immutability.                          *)
(***************************************************************************)
\* C15: a ready index constructed from a host snapshot shows, whatever is
\* read from its six arrays, the snapshot's arrays (length, content and
\* order), and has the snapshot's first_read_id, kmer_size, window_size,
\* number_of_reads and longest-read length.
C15_CopyEqualsSnapshot ==
    (is_ready /\ way_of_construciton_ = copy)
        => /\ \A a \in ObservableArrays : a = index_host_copy_source_.arrays
           /\ first_read_id_ = index_host_copy_source_.first_read_id
           /\ kmer_size_ = index_host_copy_source_.kmer_size
           /\ window_size_ = index_host_copy_source_.window_size
           /\ number_of_reads_ = index_host_copy_source_.number_of_reads
           /\ number_of_basepairs_in_longest_read_ =
                  index_host_copy_source_.number_of_basepairs_in_longest_read

\* no read of the range covers a window (an empty range included)
NoReadQualifies ==
    \A i \in 1..Len(reads) : Len(reads[i]) < window_size_ + kmer_size_ - 1

\* C16: when no read qualifies the generating constructor returns without
\* issuing anything, number_of_reads and the longest-read length are 0 and
\* the six arrays have size 0; wait_to_be_ready() then returns at once and
\* the index is ready.
C16_NoQualifyingReadGivesEmptyIndex ==
    (way_of_construciton_ = generation /\ NoReadQualifies)
        => /\ pc \in {"generate_index", "constructed", "wait_to_be_ready", "failed"}
           /\ pc \in {"constructed", "wait_to_be_ready"}
                 => /\ number_of_reads_ = 0
                    /\ number_of_basepairs_in_longest_read_ = 0
                    /\ h = OwnBuffers
                    /\ \A a \in DOMAIN h : mem[h[a]] = <<>>
                    /\ stream = <<>>
           /\ pc = "generate_index" => ENABLED (GenerateIndex /\ pc' = "constructed")
           /\ pc = "wait_to_be_ready" => ENABLED WaitToBeReadyReturns
           /\ wait_returned => is_ready

\* a ready index over a range of reads that are all too short, asked for
\* its number of reads
C16_Witness ==
    /\ way_of_construciton_ = generation
    /\ Len(reads) > 0
    /\ NoReadQualifies
    /\ is_ready
    /\ last_call.op = "number_of_reads"
    /\ last_call.value = <<0>>

\* what smallest_read_id() and largest_read_id() would return if called now
SmallestReadIdReturns(v) ==
    ENABLED (smallest_read_id /\ ~last_call'.threw /\ last_call'.value = <<v>>)

LargestReadIdReturns(v) ==
    ENABLED (largest_read_id /\ ~last_call'.threw /\ last_call'.value = <<v>>)

\* C17: on a ready index smallest_read_id() and largest_read_id() return 0
\* and 0 when number_of_reads is 0, and first_read_id and
\* first_read_id + number_of_reads - 1 otherwise; smallest <= largest.
C17_SmallestAndLargestReadId ==
    (is_ready /\ Constructed)
        => /\ \E s \in ReadIdValues \cup {0} : SmallestReadIdReturns(s)
           /\ \E l \in ReadIdValues \cup {0} : LargestReadIdReturns(l)
           /\ \A s, l \in ReadIdValues \cup {0} :
                 (SmallestReadIdReturns(s) /\ LargestReadIdReturns(l))
                     => /\ s <= l
                        /\ number_of_reads_ = 0 => (s = 0 /\ l = 0)
                        /\ number_of_reads_ > 0
                              => (s = first_read_id_ /\ l = first_read_id_ + number_of_reads_ - 1)

\* largest_read_id() was called on a ready index of two reads
C17_Witness ==
    /\ is_ready
    /\ number_of_reads_ = 2
    /\ last_call.op = "largest_read_id"
    /\ last_call.value = <<first_read_id_ + 1>>

\* a call of the public interface: an accessor, is_ready() or
\* wait_to_be_ready() (its start or its return)
PublicCall ==
    \/ last_call'.op = "representations" /\ representations
    \/ last_call'.op = "read_ids" /\ read_ids
    \/ last_call'.op = "positions_in_reads" /\ positions_in_reads
    \/ last_call'.op = "directions_of_reads" /\ directions_of_reads
    \/ last_call'.op = "unique_representations" /\ unique_representations
    \/ last_call'.op = "first_occurrence_of_representations"
          /\ first_occurrence_of_representations
    \/ last_call'.op = "number_of_reads" /\ number_of_reads
    \/ last_call'.op = "smallest_read_id" /\ smallest_read_id
    \/ last_call'.op = "largest_read_id" /\ largest_read_id
    \/ last_call'.op = "number_of_basepairs_in_longest_read"
          /\ number_of_basepairs_in_longest_read
    \/ last_call'.op = "is_ready" /\ IsReady
    \/ last_call'.op = "wait_to_be_ready" /\ (WaitToBeReady \/ WaitToBeReadyReturns)

\* C18: on a ready index no call of the public interface changes the
\* content or the length of any of the six arrays or any metadata value.
C18_PublicCallsChangeNothing ==
    [][(is_ready /\ PublicCall)
          => /\ representations_d_' = representations_d_
             /\ read_ids_d_' = read_ids_d_
             /\ positions_in_reads_d_' = positions_in_reads_d_
             /\ directions_of_reads_d_' = directions_of_reads_d_
             /\ unique_representations_d_' = unique_representations_d_
             /\ first_occurrence_of_representations_d_' = first_occurrence_of_representations_d_
             /\ UNCHANGED <<first_read_id_, kmer_size_, window_size_, number_of_reads_,
                            number_of_basepairs_in_longest_read_, is_ready_>>]_vars

\* representations() was called on a ready index with elements and
\* returned them
C18_Witness ==
    /\ is_ready
    /\ last_call.op = "representations"
    /\ ~last_call.threw
    /\ Len(representations_d_) > 0
    /\ last_call.value = representations_d_

(***************************************************************************)
(* Selection of the reads.                                                 *)
(***************************************************************************)
\* the read with the given id, as the parser returns it
ReadWithId(read_id) == reads[read_id - first_read_id_ + 1]

\* ids of the reads of the range that cover at least one window
QualifyingReadIds ==
    {first_read_id_ + i - 1 : i \in {j \in 1..Len(reads) :
                                        Len(reads[j]) >= window_size_ + kmer_size_ - 1}}

\* number of basepairs of the first n reads handed to sketch generation
BasepairsBefore(n) == TotalLength([j \in 1..n |-> ReadWithId(local_to_global_read_id[j])])

\* C19: the reads handed to sketch generation are exactly the reads of the
\* range with length >= window_size + kmer_size - 1, in ascending order of
\* read_id; each has a section that starts at the total length of the
\* qualifying reads before it and has its length, and the merged buffer
\* holds its basepairs there; a shorter read does not stop the construction.
C19_ReadSelectionAndMerge ==
    (way_of_construciton_ = generation /\ pc \notin {"generate_index", "failed"})
        => /\ Range(local_to_global_read_id) = QualifyingReadIds
           /\ StrictlyAscending(local_to_global_read_id)
           /\ Len(read_id_to_basepairs_section_h) = Len(local_to_global_read_id)
           /\ \A n \in 1..Len(local_to_global_read_id) :
                 LET read    == ReadWithId(local_to_global_read_id[n])
                     section == read_id_to_basepairs_section_h[n]
                 IN  /\ section.first_element_ = BasepairsBefore(n - 1)
                     /\ section.number_of_elements_ = Len(read)
                     /\ pc = "generate_index_synchronize"
                           => /\ Len(merged_basepairs_h)
                                     = BasepairsBefore(Len(local_to_global_read_id))
                              /\ \A x \in 1..Len(read) :
                                    merged_basepairs_h[section.first_element_ + x] = read[x]
           /\ QualifyingReadIds # {} => pc \in ConstructorPcs \cup {"constructed", "wait_to_be_ready"}

\* generate_index has merged a range whose first read was skipped and whose
\* second read holds a basepair other than the buffer's initial value
C19_Witness ==
    /\ way_of_construciton_ = generation
    /\ pc = "generate_index_synchronize"
    /\ Len(reads) = 2
    /\ local_to_global_read_id = <<first_read_id_ + 1>>
    /\ \E x \in 1..Len(merged_basepairs_h) : merged_basepairs_h[x] # 0

(***************************************************************************)
(* The filter against its reference result.                                *)
(***************************************************************************)
RECURSIVE SelectByFlag(_, _)
\* the elements of s whose flag is set, in their order
SelectByFlag(s, flag) ==
    IF Len(s) = 0 THEN <<>>
    ELSE LET n     == Len(s)
             front == SelectByFlag(SubSeq(s, 1, n - 1), flag)
         IN  IF flag[n] THEN Append(front, s[n]) ELSE front

\* 0-based index of the first element of s equal to r
FirstIndexOf(r, s) == (CHOOSE i \in 1..Len(s) : s[i] = r /\ \A j \in 1..(i - 1) : s[j] # r) - 1

\* what the filter has to return for the six arrays index and parameter p
\* (in thousandths): the elements of the representations with fewer than
\* floor(total * p + 0.001) elements, and their grouping
ReferenceFilter(p, index) ==
    LET before    == index.representations
        T         == (Len(before) * p + 1) \div 1000
        survives  == [i \in 1..Len(before) |-> Count(before[i], before) < T]
        unique    == SelectByFlag(index.unique_representations,
                                  [i \in 1..Len(index.unique_representations) |->
                                      Count(index.unique_representations[i], before) < T])
        kept      == SelectByFlag(before, survives)
    IN  [representations |-> kept,
         read_ids |-> SelectByFlag(index.read_ids, survives),
         positions_in_reads |-> SelectByFlag(index.positions_in_reads, survives),
         directions_of_reads |-> SelectByFlag(index.directions_of_reads, survives),
         unique_representations |-> unique,
         first_occurrence_of_representations |->
             [j \in 1..(Len(unique) + 1) |->
                 IF j <= Len(unique) THEN FirstIndexOf(unique[j], kept) ELSE Len(kept)]]

\* the six arrays the filter of a ready index was given
ArraysBeforeFiltering ==
    [representations |-> mem["generated_representations_d"],
     read_ids |-> mem["read_ids_d_"],
     positions_in_reads |-> mem["positions_in_reads_d_"],
     directions_of_reads |-> mem["directions_of_reads_d_"],
     unique_representations |-> mem["unique_representations_d_"],
     first_occurrence_of_representations |-> mem["first_occurrence_of_representations_d_"]]

\* input groups 5 x 4, 9 x 2, 3 x 5, the elements numbered by read_ids
ScenarioA ==
    [representations |-> <<5, 5, 5, 5, 9, 9, 3, 3, 3, 3, 3>>,
     read_ids |-> <<1, 2, 3, 4, 5, 6, 7, 8, 9, 10, 11>>,
     positions_in_reads |-> <<0, 0, 0, 0, 7, 8, 0, 0, 0, 0, 0>>,
     directions_of_reads |-> <<FORWARD, FORWARD, FORWARD, FORWARD, REVERSE, FORWARD,
                               FORWARD, FORWARD, FORWARD, FORWARD, FORWARD>>,
     unique_representations |-> <<5, 9, 3>>,
     first_occurrence_of_representations |-> <<0, 4, 6, 11>>]

ScenarioAFiltered == filter_out_most_common_representations(300, ScenarioA)

\* C20: the six arrays of a filtered ready index are the reference result
\* for the arrays the filter was given: the elements whose representation
\* survives, in their order and with the four arrays kept together, the
\* surviving unique representations in their order, and their new first
\* occurrences followed by the number of surviving elements; groups 5 x 4,
\* 9 x 2, 3 x 5 with parameter 0.3 give [9,9], [9] and [0,2] (evaluated in
\* the states in which construction has not started).
C20_FilterEqualsReference ==
    /\ pc \in {"generate_index", "constructor_copy"} =>
          LET filtered == ScenarioAFiltered
          IN  /\ filtered = ReferenceFilter(300, ScenarioA)
              /\ filtered.representations = <<9, 9>>
              /\ filtered.read_ids = <<5, 6>>
              /\ filtered.positions_in_reads = <<7, 8>>
              /\ filtered.directions_of_reads = <<REVERSE, FORWARD>>
              /\ filtered.unique_representations = <<9>>
              /\ filtered.first_occurrence_of_representations = <<0, 2>>
    /\ Filtered =>
          \A a \in ObservableArrays : a = ReferenceFilter(filtering_parameter, ArraysBeforeFiltering)

\* a filtered ready index whose first element was not the first element
\* before: the representations before it were removed and it moved to the
\* front with its position in its read
C20_Witness ==
    /\ Filtered
    /\ Len(representations_d_) >= 1
    /\ representations_d_[1] # ArraysBeforeFiltering.representations[1]
    /\ \E i \in 2..Len(ArraysBeforeFiltering.representations) :
          /\ ArraysBeforeFiltering.representations[i] = representations_d_[1]
          /\ ArraysBeforeFiltering.positions_in_reads[i] = positions_in_reads_d_[1]
          /\ ArraysBeforeFiltering.positions_in_reads[i] # ArraysBeforeFiltering.positions_in_reads[1]

(***************************************************************************)
(* The readiness flag and the read range of a generated index.             *)
(***************************************************************************)
\* C24: is_ready() is true exactly when wait_to_be_ready() has returned at
\* least once on the index: only the return of wait_to_be_ready() changes
\* it, neither a call of is_ready() nor the completion of queued work does,
\* and is_ready() returns the flag as it is.
C24_ReadyIffWaitReturned ==
    /\ [](is_ready <=> wait_returned)
    /\ [](last_call.op = "is_ready" => last_call.value = <<wait_returned>>)
    /\ [][is_ready' # is_ready => (pc = "wait_to_be_ready" /\ wait_returned')]_vars

\* is_ready() has returned false on a generated index with elements whose
\* stream has executed everything that was issued
C24_Witness ==
    /\ way_of_construciton_ = generation
    /\ Constructed
    /\ stream = <<>>
    /\ Len(representations_d_) > 0
    /\ last_call.op = "is_ready"
    /\ last_call.value = <<FALSE>>

\* what number_of_reads() would return if called now
NumberOfReadsReturns(v) ==
    ENABLED (number_of_reads /\ ~last_call'.threw /\ last_call'.value = <<v>>)

\* C25: on a ready generated index with at least one qualifying read,
\* number_of_reads() is the size of the whole requested range, skipped reads
\* included, and smallest_read_id() .. largest_read_id() is that range;
\* number_of_reads() is 0 exactly when no read qualifies.
C25_NumberOfReadsIsRangeSize ==
    (way_of_construciton_ = generation /\ is_ready /\ Constructed)
        => /\ QualifyingReadIds # {}
                 => /\ NumberOfReadsReturns(Len(reads))
                    /\ SmallestReadIdReturns(first_read_id_)
                    /\ LargestReadIdReturns(first_read_id_ + Len(reads) - 1)
           /\ NumberOfReadsReturns(0) <=> QualifyingReadIds = {}

\* number_of_reads() has returned 2 on a ready index over a range of two
\* reads, the first of which is too short
C25_Witness ==
    /\ way_of_construciton_ = generation
    /\ is_ready
    /\ Len(reads) = 2
    /\ first_read_id_ \notin QualifyingReadIds
    /\ first_read_id_ + 1 \in QualifyingReadIds
    /\ last_call.op = "number_of_reads"
    /\ last_call.value = <<2>>

\* element i of the index is the sketch element of its position in the read
\* that carries its read id
ElementComesFromItsRead(i) ==
    /\ read_ids_d_[i] \in QualifyingReadIds
    /\ positions_in_reads_d_[i] + window_size_ + kmer_size_ - 1 <= Len(ReadWithId(read_ids_d_[i]))
    /\ LET element == WindowElement(ReadWithId(read_ids_d_[i]), positions_in_reads_d_[i],
                                    kmer_size_, window_size_, read_ids_d_[i])
       IN  /\ element.representation_ = representations_d_[i]
           /\ element.direction_ = directions_of_reads_d_[i]

\* C26: in a ready generated index every element's read_id is the global id
\* of the qualifying read it was computed from, also when a too-short read
\* before it in the range was skipped; sketch generation is given the
\* number of qualifying reads and a section table of the qualifying reads
\* only.
C26_ReadIdsAreGlobalIds ==
    (way_of_construciton_ = generation /\ is_ready)
        => /\ \A i \in 1..Len(read_ids_d_) : ElementComesFromItsRead(i)
           /\ Len(read_id_to_basepairs_section_h) = Cardinality(QualifyingReadIds)

(***************************************************************************)
(* The functions of details::index_gpu called directly: grouping of an     *)
(* array of representations, then filter_out_most_common_representations   *)
(* on the result, the blocks of                                            *)
(* compress_data_arrays_after_filtering_kernel running in any order.       *)
(***************************************************************************)
\* no IndexGPU is constructed while another program is under check
NoIndex ==
    /\ reads = <<>>
    /\ filtering_parameter = 1000
    /\ first_read_id_ = 0
    /\ kmer_size_ = 0
    /\ window_size_ = 0
    /\ number_of_reads_ = 0
    /\ number_of_basepairs_in_longest_read_ = 0
    /\ way_of_construciton_ = generation
    /\ is_ready_ = FALSE
    /\ index_host_copy_source_ = NoHostCopy
    /\ h = OwnBuffers
    /\ local_to_global_read_id = <<>>
    /\ read_id_to_basepairs_section_h = <<>>
    /\ merged_basepairs_h = <<>>
    /\ mem = NoBuffers
    /\ stream = <<>>
    /\ host_copy_finished = TRUE
    /\ pc = "not_running"
    /\ last_call = NoCall
    /\ wait_returned = FALSE

\* longest array of representations handed to the functions
MaxElements == 5

RepresentationInputs == {0, 1, 2}

\* equal representations are adjacent: every value forms one run
EqualAreAdjacent(s) ==
    \A i, j \in 1..Len(s) : (i < j /\ s[i] = s[j]) => \A l \in i..j : s[l] = s[i]

GroupedInputs == {s \in SeqsUpTo(RepresentationInputs, MaxElements) : EqualAreAdjacent(s)}

\* filtering parameters of the direct calls, in thousandths
DirectFilteringParameters == FilteringParameters \cup {500}

InitDetails ==
    /\ NoIndex
    /\ cudapoa = NotRunning
    /\ cudaextender = NotRunning
    /\ \E input \in GroupedInputs, parameter \in DirectFilteringParameters :
          details = [pc |-> "find_first_occurrences_of_representations",
                     filtering_parameter |-> parameter,
                     representations_d |-> input,
                     read_ids_d |-> [i \in 1..Len(input) |-> i - 1],
                     unique_representations_d |-> <<>>,
                     first_occurrence_of_representations_d |-> <<>>,
                     number_of_sketch_elements_with_each_representation_d |-> <<>>,
                     first_occurrence_of_representation_after_filtering_d |-> <<>>,
                     unique_representation_index_after_filtering_d |-> <<>>,
                     unique_representations_after_compression_d |-> <<>>,
                     first_occurrence_of_representations_after_compression_d |-> <<>>,
                     representations_after_compression_d |-> <<>>,
                     read_ids_after_compression_d |-> <<>>,
                     blocks_run |-> {},
                     written_by |-> <<>>]

\* find_first_occurrences_of_representations(representations_d)
DetailsFindFirstOccurrences ==
    /\ details.pc = "find_first_occurrences_of_representations"
    /\ LET grouped == find_first_occurrences_of_representations(details.representations_d)
       IN  details' = [details EXCEPT
               !.pc = "filter_out_most_common_representations",
               !.unique_representations_d = grouped.unique_representations,
               !.first_occurrence_of_representations_d =
                   grouped.first_occurrence_of_representations]
    /\ UNCHANGED <<index_gpu, cudapoa, cudaextender>>

\* filter_out_most_common_representations up to the first read from the device:
\* the counts, their zeroing and the two scans
DetailsFilterScans ==
    /\ details.pc = "filter_out_most_common_representations"
    /\ LET first_occurrence == details.first_occurrence_of_representations_d
           threshold == filtering_threshold(Len(details.representations_d),
                                            details.filtering_parameter)
           counts    == replace_if(set_last(adjacent_difference(first_occurrence,
                                       set_last(Alloc(Len(first_occurrence)), 0)), 0), threshold)
       IN  details' = [details EXCEPT
               !.pc = "compress_unique_representations_after_filtering_kernel",
               !.number_of_sketch_elements_with_each_representation_d = counts,
               !.first_occurrence_of_representation_after_filtering_d = exclusive_scan(counts),
               !.unique_representation_index_after_filtering_d =
                   transform_exclusive_scan(counts, Len(details.unique_representations_d))]
    /\ UNCHANGED <<index_gpu, cudapoa, cudaextender>>

\* the unique representations and their first occurrences are compressed and
\* the data arrays of the result are allocated
DetailsCompressUnique ==
    /\ details.pc = "compress_unique_representations_after_filtering_kernel"
    /\ LET new_index  == details.unique_representation_index_after_filtering_d
           m_after    == Last(new_index)
           compressed == compress_unique_representations_after_filtering_kernel(
                             Len(details.unique_representations_d),
                             details.unique_representations_d,
                             details.first_occurrence_of_representation_after_filtering_d,
                             new_index, Alloc(m_after), Alloc(m_after + 1))
           n_after    == Last(compressed.first)
       IN  details' = [details EXCEPT
               !.pc = "compress_data_arrays_after_filtering_kernel",
               !.unique_representations_after_compression_d = compressed.unique,
               !.first_occurrence_of_representations_after_compression_d = compressed.first,
               !.representations_after_compression_d = Alloc(n_after),
               !.read_ids_after_compression_d = Alloc(n_after),
               !.written_by = [i \in 1..n_after |-> {}]]
    /\ UNCHANGED <<index_gpu, cudapoa, cudaextender>>

\* a block that writes to the front of the output whatever its representation
write_to_the_front(first_after_compression, new_index, b) == 0

\* first_occurrence_index_after_compression of block b (0-based)
first_occurrence_index_after_compression(first_after_compression, new_index, b) ==
    first_after_compression[new_index[b + 1] + 1]

\* one block of compress_data_arrays_after_filtering_kernel; the blocks of
\* the grid run in any order
DetailsCompressBlock(b) ==
    /\ details.pc = "compress_data_arrays_after_filtering_kernel"
    /\ b \notin details.blocks_run
    /\ LET count == details.number_of_sketch_elements_with_each_representation_d[b + 1]
           from  == details.first_occurrence_of_representations_d[b + 1]
           to    == first_occurrence_index_after_compression(
                        details.first_occurrence_of_representations_after_compression_d,
                        details.unique_representation_index_after_filtering_d, b)
       IN  IF 0 = count
           THEN details' = [details EXCEPT !.blocks_run = @ \cup {b}]
           ELSE details' = [details EXCEPT
                    !.blocks_run = @ \cup {b},
                    !.representations_after_compression_d =
                        compress_block(count, from, to, details.representations_d, @, 0),
                    !.read_ids_after_compression_d =
                        compress_block(count, from, to, details.read_ids_d, @, 0),
                    !.written_by = [i \in 1..Len(@) |->
                                       IF to < i /\ i <= to + count THEN @[i] \cup {b} ELSE @[i]]]
    /\ UNCHANGED <<index_gpu, cudapoa, cudaextender>>

\* every block has run: the filter returns
DetailsFilterReturns ==
    /\ details.pc = "compress_data_arrays_after_filtering_kernel"
    /\ details.blocks_run = 0..(Len(details.unique_representations_d) - 1)
    /\ details' = [details EXCEPT !.pc = "returned"]
    /\ UNCHANGED <<index_gpu, cudapoa, cudaextender>>

NextDetails ==
    \/ DetailsFindFirstOccurrences
    \/ DetailsFilterScans
    \/ DetailsCompressUnique
    \/ \E b \in 0..(MaxElements - 1) :
          b < Len(details.unique_representations_d) /\ DetailsCompressBlock(b)
    \/ DetailsFilterReturns

SpecDetails == InitDetails /\ [][NextDetails]_vars

\* grouping has returned in the direct call
Grouped == details.pc \notin {"not_running", "find_first_occurrences_of_representations"}

\* C21: for every input in which equal representations are adjacent,
\* unique_representations holds the value of every maximal run once, in input
\* order and without duplicates, and first_occurrence holds the index of the
\* first element of every run followed by the length n of the input; an
\* empty input gives no run and an input of one element gives one run.
C21_GroupingGivesRuns ==
    Grouped =>
        LET input  == details.representations_d
            unique == details.unique_representations_d
            first  == details.first_occurrence_of_representations_d
            n      == Len(input)
            m      == Len(unique)
        IN  /\ Len(first) = m + 1
            /\ first[m + 1] = n
            /\ m > 0 => first[1] = 0
            /\ \A g \in 1..m :
                  /\ first[g] < first[g + 1]
                  /\ \A i \in (first[g] + 1)..first[g + 1] : input[i] = unique[g]
            /\ \A g \in 1..(m - 1) : unique[g] # unique[g + 1]
            /\ \A g1, g2 \in 1..m : unique[g1] = unique[g2] => g1 = g2
            /\ n = 0 => m = 0
            /\ n = 1 => m = 1

\* an input of three runs that is not ascending has been grouped
C21_Witness ==
    /\ Grouped
    /\ details.representations_d = <<2, 2, 0, 1, 1>>
    /\ details.unique_representations_d = <<2, 0, 1>>
    /\ details.first_occurrence_of_representations_d = <<0, 2, 3, 5>>

\* the empty input has been grouped
C21_WitnessEmpty ==
    /\ Grouped
    /\ details.representations_d = <<>>
    /\ details.unique_representations_d = <<>>
    /\ details.first_occurrence_of_representations_d = <<0>>

\* the two scans of the filter have been computed in the direct call
Scanned == details.pc \in {"compress_unique_representations_after_filtering_kernel",
                           "compress_data_arrays_after_filtering_kernel", "returned"}

\* the unique representations have been compressed in the direct call
UniqueCompressed == details.pc \in {"compress_data_arrays_after_filtering_kernel", "returned"}

\* (1-based) groups whose count is not zero after the zeroing
Surviving == {g \in 1..Len(details.unique_representations_d) :
                 details.number_of_sketch_elements_with_each_representation_d[g] > 0}

\* C22: the map from old to new unique index has m + 1 entries, entry j is
\* the number of surviving groups before j (the exclusive prefix sum of the
\* keep flags), its last entry is the number m' of surviving groups, and
\* every surviving group g is written to slot map[g] of the compressed unique
\* representations, the surviving groups filling the slots 0 .. m' - 1 one each.
C22_MapIsExclusiveScanOfKeepFlags ==
    Scanned =>
        LET map == details.unique_representation_index_after_filtering_d
            m   == Len(details.unique_representations_d)
        IN  /\ Len(map) = m + 1
            /\ \A j \in 1..(m + 1) : map[j] = Cardinality({g \in Surviving : g < j})
            /\ map[m + 1] = Cardinality(Surviving)
            /\ \A g1, g2 \in Surviving : map[g1] = map[g2] => g1 = g2
            /\ {map[g] : g \in Surviving} = 0..(Cardinality(Surviving) - 1)
            /\ UniqueCompressed =>
                  /\ Len(details.unique_representations_after_compression_d)
                         = Cardinality(Surviving)
                  /\ \A g \in Surviving :
                        details.unique_representations_after_compression_d[map[g] + 1]
                            = details.unique_representations_d[g]

\* of three groups the middle one was filtered out and the other two were
\* written to slots 0 and 1
C22_Witness ==
    /\ details.pc = "returned"
    /\ Surviving = {1, 3}
    /\ details.unique_representation_index_after_filtering_d = <<0, 1, 1, 2>>
    /\ Len(details.unique_representations_after_compression_d) = 2

\* C23: in the map from old to new unique index the entry of every
\* filtered-out representation is the new index of its nearest retained
\* predecessor, which is the map value of its left neighbour.
C23_FilteredOutTakesLeftNeighbour ==
    Scanned =>
        LET map == details.unique_representation_index_after_filtering_d
        IN  \A g \in 1..Len(details.unique_representations_d) :
                (g \notin Surviving /\ g > 1) =>
                    /\ map[g] = map[g - 1]
                    /\ \A r \in Surviving :
                          (r < g /\ \A q \in Surviving : q < g => q <= r) => map[g] = map[r]

\* what the blocks of the kernel leave when they run one after the other
SequentialCompression(before) ==
    compress_data_array(Len(details.unique_representations_d),
                        details.number_of_sketch_elements_with_each_representation_d,
                        details.first_occurrence_of_representations_d,
                        details.first_occurrence_of_representations_after_compression_d,
                        details.unique_representation_index_after_filtering_d,
                        before, Alloc(Len(details.written_by)))

\* number of elements of the surviving groups
SurvivingElements ==
    Cardinality({i \in 1..Len(details.representations_d) :
                    \E g \in Surviving :
                        /\ details.first_occurrence_of_representations_d[g] < i
                        /\ i <= details.first_occurrence_of_representations_d[g + 1]})

\* C27: whatever the order in which the blocks of the element compaction
\* run, no output index is written by two blocks, every write goes to an
\* index below the number of surviving elements, a block whose count is zero
\* writes nothing, and once every block has run every output index has been
\* written exactly once and the output is the one of the sequential order.
C27_BlocksWriteDisjointRanges ==
    UniqueCompressed =>
        /\ Len(details.written_by) = SurvivingElements
        /\ Len(details.representations_after_compression_d) = SurvivingElements
        /\ \A i \in 1..Len(details.written_by) :
              /\ Cardinality(details.written_by[i]) <= 1
              /\ details.written_by[i] \subseteq {g - 1 : g \in Surviving} \cap details.blocks_run
              /\ (details.representations_after_compression_d[i] # UNINIT)
                     <=> (details.written_by[i] # {})
        /\ \A g \in Surviving :
              (g - 1) \in details.blocks_run =>
                  Cardinality({i \in 1..Len(details.written_by) : (g - 1) \in details.written_by[i]})
                      = details.number_of_sketch_elements_with_each_representation_d[g]
        /\ details.pc = "returned" =>
              /\ \A i \in 1..Len(details.written_by) : Cardinality(details.written_by[i]) = 1
              /\ details.representations_after_compression_d
                     = SequentialCompression(details.representations_d)
              /\ details.read_ids_after_compression_d = SequentialCompression(details.read_ids_d)

\* the filter has returned after the middle one of three groups was removed:
\* the elements of the other two are at output indices 0 and 1
C27_Witness ==
    /\ details.pc = "returned"
    /\ Surviving = {1, 3}
    /\ details.representations_d = <<0, 1, 1, 2>>
    /\ details.representations_after_compression_d = <<0, 2>>
    /\ details.read_ids_after_compression_d = <<0, 3>>

\* the third block has written its element while the first block has not run
C27_WitnessOutOfOrder ==
    /\ details.pc = "compress_data_arrays_after_filtering_kernel"
    /\ details.blocks_run = {2}
    /\ Surviving = {1, 3}
    /\ details.written_by = <<{}, {2}>>

(***************************************************************************)
(* The cudapoa sample: the loop of main over the POA groups of one batch.  *)
(* add_poa_group, get_total_poas, process_batch and reset belong to the    *)
(* Batch; a successful add_poa_group adds one POA and reset() leaves none. *)
(***************************************************************************)
\* largest number of groups in batch_group_ids
MaxGroups == 3

StatusTypes == {"success", "exceeded_maximum_poas", "exceeded_maximum_sequence_size"}

\* no call of add_poa_group so far, for each of the size entries of batch_group_ids
NoCalls(size) == [g \in 1..size |-> <<>>]

InitPoa ==
    /\ NoIndex
    /\ details = NotRunning
    /\ cudaextender = NotRunning
    /\ \E size \in 0..MaxGroups :
          cudapoa = [pc |-> "for",
                     batch_group_ids |-> [g \in 1..size |-> g - 1],
                     i |-> 0,
                     group_count |-> 0,
                     status |-> "success",
                     total_poas |-> 0,
                     added |-> NoCalls(size),     \* per entry: what every add_poa_group saw and returned
                     processed |-> <<>>,          \* get_total_poas() at every process_batch
                     accessed |-> {}]             \* every index batch_group_ids was read at

\* an index batch_group_ids can be read at
InRange(i) == 0 <= i /\ i < Len(cudapoa.batch_group_ids)

\* for (...; i < get_size(batch_group_ids);)
PoaFor ==
    /\ cudapoa.pc = "for"
    /\ cudapoa' = [cudapoa EXCEPT
           !.pc = IF cudapoa.i < Len(cudapoa.batch_group_ids) THEN "add_poa_group" ELSE "return"]
    /\ UNCHANGED <<index_gpu, details, cudaextender>>

\* Group& group = poa_groups[batch_group_ids[i]]; status = batch->add_poa_group(...)
PoaAddGroup ==
    /\ cudapoa.pc = "add_poa_group"
    /\ \E status \in StatusTypes :
          cudapoa' = [cudapoa EXCEPT
              !.pc = "full_or_last",
              !.status = status,
              !.accessed = @ \cup {cudapoa.i},
              !.added[cudapoa.i + 1] = Append(@, [total_poas |-> cudapoa.total_poas,
                                                  processed |-> Len(cudapoa.processed),
                                                  status |-> status]),
              !.total_poas = IF status = "success" THEN @ + 1 ELSE @]
    /\ UNCHANGED <<index_gpu, details, cudaextender>>

\* the batch is to be processed: it is full, or the last group was reached
full_or_last(status, i, size) == status = "exceeded_maximum_poas" \/ i = size - 1

\* a loop that stays on a group that an empty batch could not take
stay_on_group(i) == i

\* the POA was too large to be added to the GPU, skip and move on
skip_group(i) == i + 1

\* if (status == exceeded_maximum_poas || i == size - 1) { ... group_count = i; }
PoaFullOrLast ==
    /\ cudapoa.pc = "full_or_last"
    /\ IF full_or_last(cudapoa.status, cudapoa.i, Len(cudapoa.batch_group_ids))
       THEN IF cudapoa.total_poas > 0
            THEN \* process_batch, get_graphs, reset
                 cudapoa' = [cudapoa EXCEPT
                     !.pc = "success",
                     !.processed = Append(@, cudapoa.total_poas),
                     !.total_poas = 0,
                     !.group_count = cudapoa.i]
            ELSE \* "Could not add POA group " << batch_group_ids[i]
                 cudapoa' = [cudapoa EXCEPT
                     !.pc = "success",
                     !.accessed = @ \cup {cudapoa.i},
                     !.i = skip_group(@),
                     !.group_count = skip_group(cudapoa.i)]
       ELSE cudapoa' = [cudapoa EXCEPT !.pc = "success"]
    /\ UNCHANGED <<index_gpu, details, cudaextender>>

\* if (status == success) { ...; i++; }
PoaSuccess ==
    /\ cudapoa.pc = "success"
    /\ cudapoa' = [cudapoa EXCEPT
           !.pc = "error",
           !.i = IF cudapoa.status = "success" THEN @ + 1 ELSE @]
    /\ UNCHANGED <<index_gpu, details, cudaextender>>

\* if (status != exceeded_maximum_poas && status != success)
\* { ... << batch_group_ids[i] << ...; i++; }
\* A read of batch_group_ids past its end either yields some value, and the
\* loop goes on, or ends the program.
PoaError ==
    /\ cudapoa.pc = "error"
    /\ IF cudapoa.status \notin {"exceeded_maximum_poas", "success"}
       THEN \E outcome \in (IF InRange(cudapoa.i) THEN {"for"} ELSE {"for", "aborted"}) :
               cudapoa' = [cudapoa EXCEPT
                   !.pc = outcome,
                   !.accessed = @ \cup {cudapoa.i},
                   !.i = @ + 1]
       ELSE cudapoa' = [cudapoa EXCEPT !.pc = "for"]
    /\ UNCHANGED <<index_gpu, details, cudaextender>>

NextPoa ==
    \/ PoaFor
    \/ PoaAddGroup
    \/ PoaFullOrLast
    \/ PoaSuccess
    \/ PoaError

SpecPoa == InitPoa /\ [][NextPoa]_vars

\* main is one thread that runs until it returns
FairSpecPoa == SpecPoa /\ WF_vars(NextPoa)

\* C28: every read of batch_group_ids[i] in the loop is made with
\* 0 <= i < size(batch_group_ids), whatever add_poa_group returns and
\* however full the batch is.
C28_AccessesInRange == \A a \in cudapoa.accessed : InRange(a)

\* the loop is over: main has left it, or the program has ended in it
PoaTerminated == cudapoa.pc \in {"return", "aborted"}

\* the call of add_poa_group number k for entry g was rejected by a batch
\* that held POAs
RejectedByFullBatch(g, k) ==
    /\ cudapoa.added[g][k].status = "exceeded_maximum_poas"
    /\ cudapoa.added[g][k].total_poas > 0

\* the loop has moved past entry g of batch_group_ids (1-based)
MovedPast(g) == cudapoa.i >= g

\* C29: the loop over the groups of a batch terminates whatever
\* add_poa_group returns; a group rejected with exceeded_maximum_poas by a
\* batch that holds POAs is passed to add_poa_group exactly once more, after
\* process_batch and reset, and no other group is passed twice; every group
\* of the batch is passed to add_poa_group at least once; process_batch is
\* never called on a batch without POAs.
C29_LoopTerminatesAndRetriesOnce ==
    /\ <>PoaTerminated
    /\ [](\A k \in 1..Len(cudapoa.processed) : cudapoa.processed[k] > 0)
    /\ [](\A g \in 1..Len(cudapoa.batch_group_ids) :
             LET calls == cudapoa.added[g]
             IN  /\ Len(calls) <= 2
                 /\ Len(calls) = 2 =>
                       /\ RejectedByFullBatch(g, 1)
                       /\ calls[2].total_poas = 0
                       /\ calls[2].processed = calls[1].processed + 1
                 /\ (MovedPast(g) \/ PoaTerminated) =>
                       /\ Len(calls) >= 1
                       /\ RejectedByFullBatch(g, 1) => Len(calls) = 2)

\* main has left the loop over three groups; the second group was rejected
\* by the batch that held the first one and was added at its second call
C29_Witness ==
    /\ cudapoa.pc = "return"
    /\ Len(cudapoa.batch_group_ids) = 3
    /\ Len(cudapoa.added[2]) = 2
    /\ RejectedByFullBatch(2, 1)
    /\ cudapoa.added[2][2].status = "success"
    /\ Len(cudapoa.processed) = 2

(***************************************************************************)
(* cudaextender: one launch of find_high_scoring_segment_pairs.  The warps *)
(* of the grid run independently of each other (the only barrier after the *)
(* load of the substitution matrix is __syncwarp); lane 0 of a warp reads  *)
(* the seed pair and writes the result.  The extension itself reads the    *)
(* two sequences only; what it finds is any (total_score, entropy) it can  *)
(* end with.                                                               *)
(***************************************************************************)
\* constexpr int32_t num_warps = 4
num_warps == 4

\* largest num_seed_pairs
MaxSeedPairs == 5

\* gridDim.x
GridSizes == {1, 2}

StartIndexes == {0, 1}

ScoreThresholds == {2}

\* indices of d_scored_segment and d_done a warp of the grid can compute
Slots == 0..(MaxSeedPairs + num_warps)

\* d_seed_pairs
d_seed_pairs(hid) == [target_position_in_read |-> hid + 1, query_position_in_read |-> hid + 2]

\* a cell of d_scored_segment or d_done that the kernel has not written
Unwritten == [writes |-> 0]

\* what the two extensions and the entropy adjustment can end with: the
\* entropy is left at 1 unless score_threshold <= total_score <= 3 * score_threshold
Extensions(score_threshold) ==
    {e \in [total_score : {score_threshold - 1, score_threshold}, entropy : {0, 1},
            left_extent : {1}, extent : {3}] :
        e.entropy = 0 => e.total_score >= score_threshold}

InitExtender ==
    /\ NoIndex
    /\ details = NotRunning
    /\ cudapoa = NotRunning
    /\ \E num_blocks \in GridSizes, num_seed_pairs \in 0..MaxSeedPairs,
          start_index \in StartIndexes, score_threshold \in ScoreThresholds :
          cudaextender =
              [num_blocks |-> num_blocks,
               num_seed_pairs |-> num_seed_pairs,
               start_index |-> start_index,
               score_threshold |-> score_threshold,
               warp |-> [id \in (0..(num_blocks - 1)) \X (0..(num_warps - 1)) |->
                            [pc |-> "for", hid0 |-> id[1] * num_warps,
                             ref_loc |-> 0, query_loc |-> 0]],
               d_scored_segment |-> [hid \in Slots |-> Unwritten],
               d_done |-> [j \in Slots |-> Unwritten],
               dummy_reads |-> {}]

\* int32_t hid = hid0 + warp_id + start_index
Hid(id) == cudaextender.warp[id].hid0 + id[2] + cudaextender.start_index

\* if (hid < num_seed_pairs), where the seed pair is read
has_seed_pair(hid, num_seed_pairs) == hid < num_seed_pairs

\* a warp that records a result whatever its hid
every_warp_writes(hid, num_seed_pairs) == TRUE

\* if (hid < num_seed_pairs), where the result is written
writes_result(hid, num_seed_pairs) == hid < num_seed_pairs

\* the first test of the loop over hid0, and the load of the seed pair by
\* lane 0
WarpLoadsSeed(id) ==
    /\ cudaextender.warp[id].pc = "for"
    /\ LET hid0 == cudaextender.warp[id].hid0
           hid  == Hid(id)
       IN  IF hid0 < cudaextender.num_seed_pairs
           THEN IF has_seed_pair(hid, cudaextender.num_seed_pairs)
                THEN cudaextender' = [cudaextender EXCEPT
                         !.warp[id].pc = "extend",
                         !.warp[id].ref_loc = d_seed_pairs(hid).target_position_in_read,
                         !.warp[id].query_loc = d_seed_pairs(hid).query_position_in_read]
                ELSE cudaextender' = [cudaextender EXCEPT
                         !.warp[id].pc = "extend",
                         !.warp[id].ref_loc = d_seed_pairs(hid0).target_position_in_read,
                         !.warp[id].query_loc = d_seed_pairs(hid0).query_position_in_read,
                         !.dummy_reads = @ \cup {hid0}]
           ELSE cudaextender' = [cudaextender EXCEPT !.warp[id].pc = "return"]
    /\ UNCHANGED <<index_gpu, details, cudapoa>>

\* the record lane 0 writes for an extension
ScoredSegment(w, e, score_threshold) ==
    IF e.total_score * e.entropy >= score_threshold
    THEN [target_position_in_read |-> w.ref_loc - e.left_extent,
          query_position_in_read |-> w.query_loc - e.left_extent,
          length |-> e.extent,
          score |-> e.total_score * e.entropy,
          final_score |-> e.total_score * e.entropy]
    ELSE [target_position_in_read |-> w.ref_loc,
          query_position_in_read |-> w.query_loc,
          length |-> 0,
          score |-> 0,
          final_score |-> e.total_score * e.entropy]

\* the extension to the right and to the left, the entropy adjustment, and
\* the write of the result by lane 0; then hid0 += num_warps * num_blocks
\* and the test of the loop
WarpExtendsAndWrites(id) ==
    /\ cudaextender.warp[id].pc = "extend"
    /\ \E e \in Extensions(cudaextender.score_threshold) :
          LET hid      == Hid(id)
              w        == cudaextender.warp[id]
              stride   == num_warps * cudaextender.num_blocks
              next     == [w EXCEPT !.pc = IF w.hid0 + stride < cudaextender.num_seed_pairs
                                           THEN "for" ELSE "return",
                                    !.hid0 = @ + stride,
                                    !.ref_loc = 0, !.query_loc = 0]
              segment  == ScoredSegment(w, e, cudaextender.score_threshold)
              done     == IF e.total_score * e.entropy >= cudaextender.score_threshold
                          THEN 1 ELSE 0
          IN  IF writes_result(hid, cudaextender.num_seed_pairs)
              THEN cudaextender' = [cudaextender EXCEPT
                       !.warp[id] = next,
                       !.d_scored_segment[hid] =
                           [segment |-> segment, writes |-> @.writes + 1],
                       !.d_done[hid - cudaextender.start_index] =
                           [value |-> done, writes |-> @.writes + 1]]
              ELSE cudaextender' = [cudaextender EXCEPT !.warp[id] = next]
    /\ UNCHANGED <<index_gpu, details, cudapoa>>

NextExtender ==
    \/ \E id \in DOMAIN cudaextender.warp : WarpLoadsSeed(id)
    \/ \E id \in DOMAIN cudaextender.warp : WarpExtendsAndWrites(id)

SpecExtender == InitExtender /\ [][NextExtender]_vars

\* every warp of the grid has left the kernel
KernelFinished == \A id \in DOMAIN cudaextender.warp : cudaextender.warp[id].pc = "return"

\* the hid with a seed pair to extend
SeedPairHids == {hid \in Slots : cudaextender.start_index <= hid
                                   /\ hid < cudaextender.num_seed_pairs}

\* C30: with 4 warps per block and any number of blocks, the kernel writes
\* d_scored_segment[hid] and d_done[hid - start_index] exactly once for
\* every hid in [start_index, num_seed_pairs) and nothing else; a warp whose
\* hid is not below num_seed_pairs reads only the seed pair at hid0, which is
\* in range, and writes nothing; a segment whose final score is below
\* score_threshold is recorded with length 0, score 0, done flag 0 and the
\* positions of its seed pair, any other with done flag 1.
C30_EveryHidWrittenOnce ==
    /\ \A hid \in Slots \ SeedPairHids : cudaextender.d_scored_segment[hid].writes = 0
    /\ \A j \in Slots \ {hid - cudaextender.start_index : hid \in SeedPairHids} :
          cudaextender.d_done[j].writes = 0
    /\ \A hid \in SeedPairHids :
          LET segment == cudaextender.d_scored_segment[hid]
              done    == cudaextender.d_done[hid - cudaextender.start_index]
          IN  /\ segment.writes <= 1
              /\ done.writes = segment.writes
              /\ KernelFinished => segment.writes = 1
              /\ segment.writes = 1 =>
                    IF segment.segment.final_score < cudaextender.score_threshold
                    THEN /\ segment.segment.length = 0
                         /\ segment.segment.score = 0
                         /\ done.value = 0
                         /\ segment.segment.target_position_in_read
                                = d_seed_pairs(hid).target_position_in_read
                         /\ segment.segment.query_position_in_read
                                = d_seed_pairs(hid).query_position_in_read
                    ELSE done.value = 1
    /\ \A hid0 \in cudaextender.dummy_reads : 0 <= hid0 /\ hid0 < cudaextender.num_seed_pairs

\* a grid of two blocks has finished on five seed pairs with start_index 1:
\* four results are written, one below and one above the threshold among
\* them, and the warps of the second block, which have no seed pair of their
\* own, have read the one at hid0 4
C30_Witness ==
    /\ KernelFinished
    /\ cudaextender.num_blocks = 2
    /\ cudaextender.num_seed_pairs = 5
    /\ cudaextender.start_index = 1
    /\ cudaextender.dummy_reads = {4}
    /\ cudaextender.d_done[0].value = 0
    /\ cudaextender.d_done[3].value = 1
    /\ cudaextender.d_scored_segment[0].writes = 0
    /\ cudaextender.d_scored_segment[4].writes = 1
====
